---- MODULE Spec2Model ----
(***************************************************************************)
(* The Agent of spongecake (spongecake/agent.py): the controller that      *)
(* turns the responses of the model service into desktop actions, pauses   *)
(* for acknowledgment of safety checks or for user input, and keeps the    *)
(* conversation state.                                                      *)
(*                                                                          *)
(* One step of the model is one call of a public method of Agent.  The     *)
(* model service and the desktop are external: what they answer during a   *)
(* call (a response, a failure) is chosen nondeterministically, and every  *)
(* request made to them is written to the log `io` of the call.            *)
(***************************************************************************)
EXTENDS FiniteSets, Integers, Sequences, TLC

VARIABLES
    desktop,                \* Agent.desktop: None or the bound Desktop
    openai_api_key,         \* Agent.openai_api_key (openai_client exists iff set)
    response_history,       \* Agent._response_history
    input_history,          \* Agent._input_history
    current_response,       \* Agent._current_response
    pending_call,           \* Agent._pending_call
    pending_safety_checks,  \* Agent._pending_safety_checks
    needs_input,            \* Agent._needs_input
    error,                  \* Agent._error
    nreq,                   \* requests the model service has received so far
    was_current,            \* every value _current_response has had since
                            \* __init__ or the last reset_state
    latest_received,        \* the id of the response the model service gave
                            \* last, since __init__ or the last reset_state
    last,                   \* the last public call: arguments, result, io log
    local_ports,            \* Desktop.vnc_port, api_port, marionette_port,
                            \* socat_port
    start_call,             \* the call of Desktop.start: where it is, its
                            \* retries, and what docker answered
    tracer,                 \* a Tracer: its config and current_trace
    tracing                 \* around the Tracer: the clock, the traces the
                            \* callback was given, the open trace() contexts
                            \* and the calls made so far

vars == <<desktop, openai_api_key, response_history, input_history,
          current_response, pending_call, pending_safety_checks, needs_input,
          error, nreq, was_current, latest_received, last,
          local_ports, start_call, tracer, tracing>>

\* what no method of Agent and no primitive of Desktop touches: the local
\* ports and the start of the container, and the Tracer
Elsewhere == <<local_ports, start_call, tracer, tracing>>

-----------------------------------------------------------------------------
(* Python values.  An optional value is None or Some(v).                    *)

None == <<>>
Some(v) == <<v>>
Get(o) == o[1]
\* `xs or None`
OrNone(xs) == IF xs = <<>> THEN None ELSE Some(xs)

\* The model service receives at most MaxRequests requests in one run
\* (answered or failed); response ids are the request numbers.
MaxRequests == 2

COMPLETE == "complete"
NEEDS_INPUT == "needs_input"
NEEDS_SAFETY_CHECK == "needs_safety_check"
ERROR == "error"

NoDesktopError == "No desktop has been set for this agent."
NoValidActionError == "No valid action to take. Provide input text or acknowledge safety checks."
NoActiveConversationError == "No active conversation to continue."
NoPendingCallError == "No pending call or safety checks to acknowledge."
ScreenshotError == "Screenshot command failed"
ServiceError == "model service failure"
NoClientError == "'NoneType' object has no attribute 'responses'"

-----------------------------------------------------------------------------
(* The data the model service produces.                                     *)

Check1 == [id |-> "c1", code |-> "risky", message |-> Some("may delete data")]
\* a check that carries no message attribute
Check2 == [id |-> "c2", code |-> "malicious_instructions", message |-> None]

ClickAction == [type |-> "click", x |-> 10, y |-> 20, button |-> "left"]
TypeAction == [type |-> "type", text |-> "rm -rf"]
ScrollAction ==
    [type |-> "scroll", x |-> 10, y |-> 20, scroll_x |-> 0, scroll_y |-> 5]
KeypressAction == [type |-> "keypress", keys |-> <<"CTRL", "c">>]
WaitAction == [type |-> "wait"]
ScreenshotAction == [type |-> "screenshot"]
\* an action type handle_model_action has no case for
DragAction == [type |-> "drag", path |-> <<[x |-> 10, y |-> 20]>>]

Message(t) ==
    [type |-> "message", text |-> t, pending_safety_checks |-> <<>>]
ComputerCall(id, a, checks) ==
    [type |-> "computer_call", call_id |-> id, action |-> a,
     pending_safety_checks |-> checks]
Reasoning(checks) ==
    [type |-> "reasoning", pending_safety_checks |-> checks]

M1 == Message("which file?")
M2 == Message("are you sure?")
CallSafe == ComputerCall("call_1", ClickAction, <<>>)
CallRisky == ComputerCall("call_2", TypeAction, <<Check1, Check2>>)

\* response.output: the item lists the model service may answer with
Outputs ==
    { <<>>,
      <<M1>>,
      <<M2, M1>>,
      <<CallSafe>>,
      <<M1, CallSafe>>,
      <<CallRisky>>,
      <<M1, CallRisky>>,
      <<Reasoning(<<Check1>>), CallSafe>>,
      <<Reasoning(<<Check1>>)>>,
      <<M1, Reasoning(<<Check2>>)>> }

\* the action types handle_model_action has a case for
Recognized == {"click", "scroll", "keypress", "type", "wait", "screenshot"}

\* outputs with one call of every kind of action, with and without a check
DispatchActions ==
    {ClickAction, ScrollAction, KeypressAction, TypeAction, WaitAction,
     ScreenshotAction, DragAction}

DispatchOutputs ==
    { <<>>, <<M1>> }
        \cup { <<ComputerCall("call_1", a, <<>>)>> : a \in DispatchActions }
        \cup { <<ComputerCall("call_2", a, <<Check1>>)>> :
                  a \in {ClickAction, ScreenshotAction, DragAction} }

\* input_text of a call of action
Texts == {"open file"}

\* the Desktop an agent can be bound to; Desktop.__init__ always sets its key
TheDesktop == [openai_api_key |-> Some("sk-key")]

-----------------------------------------------------------------------------
(* Control flow of the Python code.  A method runs on a thread record       *)
(*   r = [self |-> the agent's fields, n |-> requests so far, io |-> log]   *)
(* and yields a set of outcomes [r, exc, ret]: exc is Some(message) when    *)
(* the method raised, otherwise ret is what it returned.  The set has one   *)
(* outcome for each way the desktop and the model service can answer.       *)

Return(r, v) == [r |-> r, exc |-> None, ret |-> v]
Raise(r, msg) == [r |-> r, exc |-> Some(msg), ret |-> None]

\* run F on every outcome of S that returned; a raised outcome propagates
Bind(S, F(_)) == UNION { IF x.exc # None THEN {x} ELSE F(x) : x \in S }

Log(r, ev) == [r EXCEPT !.io = Append(@, ev)]
\* self.<f> = v; an assignment of a response to _current_response is noted
SetField(r, f, v) ==
    IF f = "current_response" /\ v # None
    THEN [r EXCEPT !.self[f] = v, !.was_current = @ \cup {Get(v)}]
    ELSE [r EXCEPT !.self[f] = v]

-----------------------------------------------------------------------------
(* The external collaborators.                                              *)

\* The answers of the collaborators: every possible one, or, for a thread
\* that has a script (a log of events), only the one the script has at this
\* place.  S is the set of outcomes of one call of a collaborator on r.
Answers(r, S) ==
    IF r.script = None THEN S
    ELSE { x \in S :
             \/ Len(x.r.io) = Len(r.io)
             \/ /\ Len(x.r.io) <= Len(Get(r.script))
                /\ x.r.io[Len(x.r.io)] = Get(r.script)[Len(x.r.io)] }

\* a primitive of the Desktop (click, scroll, keypress, type_text): it may fail
Primitive(r, op, args) ==
    Answers(r,
        { Return(Log(r, [op |-> op, args |-> args, ok |-> TRUE]), None),
          Raise(Log(r, [op |-> op, args |-> args, ok |-> FALSE]),
                "primitive failed") })

\* Desktop.get_screenshot: the base64 text, or RuntimeError.  The callers
\* decode the text and save it to output_image.png right after; a failure
\* there ends the call of action the same way and is not told apart.
get_screenshot(r) ==
    Answers(r,
        { Return(Log(r, [op |-> "get_screenshot", ok |-> TRUE]), "iVBORw0KGgo="),
          Raise(Log(r, [op |-> "get_screenshot", ok |-> FALSE]), ScreenshotError) })

\* The model service a thread talks to: the outputs its responses can have,
\* and what becomes of a request beyond MaxRequests.  A finite service has
\* a sequence of at most MaxRequests responses and fails once they are used
\* up; otherwise runs with more requests are left out.
AnyService == [outputs |-> Outputs, finite |-> FALSE]
ScriptedService == [outputs |-> Outputs, finite |-> TRUE]
DispatchService == [outputs |-> DispatchOutputs, finite |-> FALSE]

\* openai_client.responses.create(**params): a new response with a fresh id,
\* or a failure of the service
responses_create(r, params) ==
    LET sent(answer) ==
            [Log(r, [op |-> "responses.create", params |-> params,
                     response |-> answer])
                EXCEPT !.n = r.n + 1,
                       !.latest_received =
                           IF answer = None THEN @ ELSE Some(Get(answer).id)]
        new(o) == [id |-> r.n + 1, output |-> o]
    IN  IF r.self.openai_api_key = None
        THEN { Raise(r, NoClientError) }
        ELSE IF r.n >= MaxRequests
        THEN IF r.service.finite THEN { Raise(sent(None), ServiceError) } ELSE {}
        ELSE Answers(r,
                 { Return(sent(Some(new(o))), new(o)) : o \in r.service.outputs }
                     \cup { Raise(sent(None), ServiceError) })

\* the tool output sent after a call was executed
CallOutput(computer_call, screenshot_base64) ==
    [call_id |-> computer_call.call_id, type |-> "computer_call_output",
     output |-> [type |-> "input_image", image_url |-> screenshot_base64]]

\* variant: only the first of the acknowledged checks is echoed back
AcknowledgedCallOutput_FirstCheckOnly(computer_call, screenshot_base64, safety_checks) ==
    [call_id |-> computer_call.call_id, type |-> "computer_call_output",
     acknowledged_safety_checks |->
        <<[id |-> safety_checks[1].id,
           code |-> safety_checks[1].code,
           message |-> IF safety_checks[1].message # None
                       THEN Get(safety_checks[1].message)
                       ELSE "Safety check message"]>>,
     output |-> [type |-> "input_image", image_url |-> screenshot_base64]]

\* the same with the acknowledged checks echoed back
AcknowledgedCallOutput(computer_call, screenshot_base64, safety_checks) ==
    [call_id |-> computer_call.call_id, type |-> "computer_call_output",
     acknowledged_safety_checks |->
        [i \in 1..Len(safety_checks) |->
            [id |-> safety_checks[i].id,
             code |-> safety_checks[i].code,
             message |-> IF safety_checks[i].message # None
                         THEN Get(safety_checks[i].message)
                         ELSE "Safety check message"]],
     output |-> [type |-> "input_image", image_url |-> screenshot_base64]]

-----------------------------------------------------------------------------
(* Agent.handle_model_action                                                *)

\* the `try: ... except Exception` around the dispatch: a failure is printed
Swallow(S) == { IF x.exc # None THEN Return(x.r, None) ELSE x : x \in S }

\* variant: a failure of a primitive is raised to the caller
handle_model_action_Propagates(r, action) ==
    IF r.self.desktop = None
    THEN { Raise(r, NoDesktopError) }
    ELSE
        CASE action.type = "click" ->
                Primitive(r, "click", <<action.x, action.y, action.button>>)
          [] action.type = "scroll" ->
                Primitive(r, "scroll",
                          <<action.x, action.y, action.scroll_x, action.scroll_y>>)
          [] action.type = "keypress" ->
                Primitive(r, "keypress", action.keys)
          [] action.type = "type" ->
                Primitive(r, "type_text", action.text)
          [] action.type = "wait" ->
                { Return(r, None) }
          [] action.type = "screenshot" ->
                Bind(get_screenshot(r), LAMBDA s : { Return(s.r, Some(s.ret)) })
          [] OTHER ->
                { Return(r, None) }

\* variant: an action of an unknown type is refused with an error
handle_model_action_RejectsUnknown(r, action) ==
    IF r.self.desktop = None
    THEN { Raise(r, NoDesktopError) }
    ELSE IF action.type \notin Recognized
    THEN { Raise(r, "Unrecognized action") }
    ELSE Swallow(
        CASE action.type = "click" ->
                Primitive(r, "click", <<action.x, action.y, action.button>>)
          [] action.type = "scroll" ->
                Primitive(r, "scroll",
                          <<action.x, action.y, action.scroll_x, action.scroll_y>>)
          [] action.type = "keypress" ->
                Primitive(r, "keypress", action.keys)
          [] action.type = "type" ->
                Primitive(r, "type_text", action.text)
          [] action.type = "wait" ->
                { Return(r, None) }
          [] OTHER ->
                Bind(get_screenshot(r), LAMBDA s : { Return(s.r, Some(s.ret)) }))

handle_model_action(r, action) ==
    IF r.self.desktop = None
    THEN { Raise(r, NoDesktopError) }
    ELSE Swallow(
        CASE action.type = "click" ->
                Primitive(r, "click", <<action.x, action.y, action.button>>)
          [] action.type = "scroll" ->
                Primitive(r, "scroll",
                          <<action.x, action.y, action.scroll_x, action.scroll_y>>)
          [] action.type = "keypress" ->
                Primitive(r, "keypress", action.keys)
          [] action.type = "type" ->
                Primitive(r, "type_text", action.text)
          [] action.type = "wait" ->
                { Return(r, None) }
          [] action.type = "screenshot" ->
                Bind(get_screenshot(r), LAMBDA s : { Return(s.r, Some(s.ret)) })
          [] OTHER ->
                { Return(r, None) })

-----------------------------------------------------------------------------
(* Agent.computer_use_loop                                                  *)

\* variant: the items are collected in reverse order
ItemsOfType_Reversed(response, type) ==
    LET found == SelectSeq(response.output, LAMBDA item : item.type = type)
    IN  [i \in 1..Len(found) |-> found[Len(found) + 1 - i]]

\* [item for item in response.output if item.type == type]
ItemsOfType(response, type) ==
    SelectSeq(response.output, LAMBDA item : item.type = type)

RECURSIVE Extend_CallItemsOnly(_)
\* variant: only the checks attached to computer_call items are collected
Extend_CallItemsOnly(output) ==
    IF output = <<>> THEN <<>>
    ELSE (IF Head(output).type = "computer_call"
          THEN Head(output).pending_safety_checks ELSE <<>>)
         \o Extend_CallItemsOnly(Tail(output))

RECURSIVE Extend(_)
\* all_safety_checks: the checks of every item, in item order
Extend(output) ==
    IF output = <<>> THEN <<>>
    ELSE Head(output).pending_safety_checks \o Extend(Tail(output))

\* a call is about to be handed to handle_model_action (a mark in the log)
Dispatch(r, computer_call, response, how) ==
    Log(r, [op |-> "dispatch", call |-> computer_call, of |-> response,
            how |-> how])

RECURSIVE computer_use_loop(_, _)
computer_use_loop(r, response) ==
    LET messages == ItemsOfType(response, "message")
        computer_calls == ItemsOfType(response, "computer_call")
        computer_call ==
            IF computer_calls # <<>> THEN Some(computer_calls[1]) ELSE None
        all_safety_checks == Extend(response.output)
    IN  IF r.self.desktop = None
        THEN { Raise(r, NoDesktopError) }
        ELSE IF computer_call # None /\ all_safety_checks # <<>>
        THEN { Return(r, <<response, OrNone(messages), Some(all_safety_checks),
                           computer_call>>) }
        ELSE IF computer_call = None
        THEN IF messages # <<>> \/ all_safety_checks # <<>>
             THEN { Return(r, <<response, OrNone(messages),
                                OrNone(all_safety_checks), None>>) }
             ELSE { Return(r, <<response, None, None, None>>) }
        ELSE
          Bind(handle_model_action(
                   Dispatch(r, Get(computer_call), response, "loop"),
                   Get(computer_call).action),
               LAMBDA a :
          Bind(get_screenshot(a.r),
               LAMBDA s :
          Bind(responses_create(s.r,
                   [previous_response_id |-> Some(response.id),
                    input |-> <<CallOutput(Get(computer_call), s.ret)>>]),
               LAMBDA n :
          computer_use_loop(n.r, n.ret))))

-----------------------------------------------------------------------------
(* The private methods of Agent.                                            *)

_build_input_dict(role, content) == [role |-> role, content |-> content]

\* variant: the request is sent without previous_response_id
_create_response_DropsId(r, new_input, previous_response_id) ==
    responses_create(r, [previous_response_id |-> None,
                         input |-> <<new_input>>])

_create_response(r, new_input, previous_response_id) ==
    responses_create(r, [previous_response_id |-> previous_response_id,
                         input |-> <<new_input>>])

\* variant: the result is returned and nothing of it is stored
_process_response_StoresNothing(r, response) ==
    Bind(computer_use_loop(r, response), LAMBDA c :
        LET output == c.ret[1]
            messages == c.ret[2]
            checks == c.ret[3]
            call == c.ret[4]
        IN  IF call # None /\ checks # None
            THEN { Return(c.r, <<NEEDS_SAFETY_CHECK,
                                 [safety_checks |-> Get(checks),
                                  pending_call |-> Get(call)]>>) }
            ELSE IF messages # None
            THEN { Return(c.r, <<NEEDS_INPUT, Get(messages)>>) }
            ELSE { Return(c.r, <<COMPLETE, output>>) })

\* variant: the messages are looked at before the pending call
_process_response_MessagesFirst(r, response) ==
    Bind(computer_use_loop(r, response), LAMBDA c :
        LET output == c.ret[1]
            messages == c.ret[2]
            checks == c.ret[3]
            call == c.ret[4]
            r1 == SetField(c.r, "current_response", Some(output))
        IN  IF messages # None
            THEN { Return(SetField(r1, "needs_input", Get(messages)),
                          <<NEEDS_INPUT, Get(messages)>>) }
            ELSE IF call # None /\ checks # None
            THEN { Return(SetField(SetField(r1, "pending_call", call),
                                   "pending_safety_checks", Get(checks)),
                          <<NEEDS_SAFETY_CHECK,
                            [safety_checks |-> Get(checks),
                             pending_call |-> Get(call)]>>) }
            ELSE { Return(r1, <<COMPLETE, output>>) })

_process_response(r, response) ==
    Bind(computer_use_loop(r, response), LAMBDA c :
        LET output == c.ret[1]
            messages == c.ret[2]
            checks == c.ret[3]
            call == c.ret[4]
            r1 == SetField(c.r, "current_response", Some(output))
        IN  IF call # None /\ checks # None
            THEN { Return(SetField(SetField(r1, "pending_call", call),
                                   "pending_safety_checks", Get(checks)),
                          <<NEEDS_SAFETY_CHECK,
                            [safety_checks |-> Get(checks),
                             pending_call |-> Get(call)]>>) }
            ELSE IF messages # None
            THEN { Return(SetField(r1, "needs_input", Get(messages)),
                          <<NEEDS_INPUT, Get(messages)>>) }
            ELSE { Return(r1, <<COMPLETE, output>>) })

\* variant: the pending safety checks are not cleared
_handle_new_command_KeepsChecks(r, command_text) ==
    LET r1 == SetField(SetField(r, "pending_call", None), "needs_input", <<>>)
        new_input == _build_input_dict("user", command_text)
        r2 == SetField(r1, "input_history",
                       Append(r1.self.input_history, new_input))
    IN  Bind(_create_response(r2, new_input, None), LAMBDA c :
            LET response == c.ret
                r3 == SetField(c.r, "response_history",
                               Append(c.r.self.response_history, response))
                r4 == SetField(r3, "current_response", Some(response))
            IN  _process_response(r4, response))

\* variant: the pending call is not cleared
_handle_new_command_KeepsPendingCall(r, command_text) ==
    LET r1 == SetField(SetField(r, "pending_safety_checks", <<>>),
                       "needs_input", <<>>)
        new_input == _build_input_dict("user", command_text)
        r2 == SetField(r1, "input_history",
                       Append(r1.self.input_history, new_input))
    IN  Bind(_create_response(r2, new_input, None), LAMBDA c :
            LET response == c.ret
                r3 == SetField(c.r, "response_history",
                               Append(c.r.self.response_history, response))
                r4 == SetField(r3, "current_response", Some(response))
            IN  _process_response(r4, response))

\* variant: a new command continues the conversation that is still current
_handle_new_command_Continues(r, command_text) ==
    LET r1 == SetField(SetField(SetField(r, "pending_call", None),
                                "pending_safety_checks", <<>>),
                       "needs_input", <<>>)
        new_input == _build_input_dict("user", command_text)
        r2 == SetField(r1, "input_history",
                       Append(r1.self.input_history, new_input))
        previous == IF r.self.current_response = None THEN None
                    ELSE Some(Get(r.self.current_response).id)
    IN  Bind(_create_response(r2, new_input, previous), LAMBDA c :
            LET response == c.ret
                r3 == SetField(c.r, "response_history",
                               Append(c.r.self.response_history, response))
                r4 == SetField(r3, "current_response", Some(response))
            IN  _process_response(r4, response))

\* variant: a new command forgets the last error
_handle_new_command_ClearsError(r, command_text) ==
    LET r1 == SetField(SetField(SetField(SetField(r, "pending_call", None),
                                         "pending_safety_checks", <<>>),
                                "needs_input", <<>>),
                       "error", None)
        new_input == _build_input_dict("user", command_text)
        r2 == SetField(r1, "input_history",
                       Append(r1.self.input_history, new_input))
    IN  Bind(_create_response(r2, new_input, None), LAMBDA c :
            LET response == c.ret
                r3 == SetField(c.r, "response_history",
                               Append(c.r.self.response_history, response))
                r4 == SetField(r3, "current_response", Some(response))
            IN  _process_response(r4, response))

\* variant: a new command starts with empty histories
_handle_new_command_ClearsHistories(r, command_text) ==
    LET r1 == SetField(SetField(SetField(r, "pending_call", None),
                                "pending_safety_checks", <<>>),
                       "needs_input", <<>>)
        new_input == _build_input_dict("user", command_text)
        r2 == SetField(r1, "input_history", <<new_input>>)
    IN  Bind(_create_response(r2, new_input, None), LAMBDA c :
            LET response == c.ret
                r3 == SetField(c.r, "response_history", <<response>>)
                r4 == SetField(r3, "current_response", Some(response))
            IN  _process_response(r4, response))

_handle_new_command(r, command_text) ==
    LET r1 == SetField(SetField(SetField(r, "pending_call", None),
                                "pending_safety_checks", <<>>),
                       "needs_input", <<>>)
        new_input == _build_input_dict("user", command_text)
        r2 == SetField(r1, "input_history",
                       Append(r1.self.input_history, new_input))
    IN  Bind(_create_response(r2, new_input, None), LAMBDA c :
            LET response == c.ret
                r3 == SetField(c.r, "response_history",
                               Append(c.r.self.response_history, response))
                r4 == SetField(r3, "current_response", Some(response))
            IN  _process_response(r4, response))

\* variant: needs_input is not cleared
_handle_user_input_KeepsNeedsInput(r, input_text) ==
    IF r.self.current_response = None
    THEN { Return(SetField(r, "error", Some(NoActiveConversationError)),
                  <<ERROR, NoActiveConversationError>>) }
    ELSE
        LET new_input == _build_input_dict("user", input_text)
            r1 == SetField(r, "input_history",
                           Append(r.self.input_history, new_input))
        IN  Bind(_create_response(r1, new_input,
                                  Some(Get(r1.self.current_response).id)),
                 LAMBDA c :
                LET response == c.ret
                    r2 == SetField(c.r, "response_history",
                                   Append(c.r.self.response_history, response))
                    r3 == SetField(r2, "current_response", Some(response))
                IN  _process_response(r3, response))

\* variant: the text is sent as the first turn of a new conversation
_handle_user_input_NewConversation(r, input_text) ==
    IF r.self.current_response = None
    THEN { Return(SetField(r, "error", Some(NoActiveConversationError)),
                  <<ERROR, NoActiveConversationError>>) }
    ELSE
        LET new_input == _build_input_dict("user", input_text)
            r1 == SetField(r, "input_history",
                           Append(r.self.input_history, new_input))
        IN  Bind(_create_response(r1, new_input, None),
                 LAMBDA c :
                LET response == c.ret
                    r2 == SetField(c.r, "response_history",
                                   Append(c.r.self.response_history, response))
                    r3 == SetField(r2, "current_response", Some(response))
                    r4 == SetField(r3, "needs_input", <<>>)
                IN  _process_response(r4, response))

\* variant: the text is dropped and the open request for input is returned
_handle_user_input_AsksAgain(r, input_text) ==
    { Return(r, <<NEEDS_INPUT, r.self.needs_input>>) }

_handle_user_input(r, input_text) ==
    IF r.self.current_response = None
    THEN { Return(SetField(r, "error", Some(NoActiveConversationError)),
                  <<ERROR, NoActiveConversationError>>) }
    ELSE
        LET new_input == _build_input_dict("user", input_text)
            r1 == SetField(r, "input_history",
                           Append(r.self.input_history, new_input))
        IN  Bind(_create_response(r1, new_input,
                                  Some(Get(r1.self.current_response).id)),
                 LAMBDA c :
                LET response == c.ret
                    r2 == SetField(c.r, "response_history",
                                   Append(c.r.self.response_history, response))
                    r3 == SetField(r2, "current_response", Some(response))
                    r4 == SetField(r3, "needs_input", <<>>)
                IN  _process_response(r4, response))

\* variant: the new response is recorded but not made the current one
_execute_and_continue_call_KeepsCurrent(r, input, computer_call, safety_checks) ==
    IF r.self.desktop = None
    THEN { Raise(r, NoDesktopError) }
    ELSE
      Bind(handle_model_action(Dispatch(r, computer_call, input, "acknowledged"),
                               computer_call.action),
           LAMBDA a :
      Bind(get_screenshot(a.r),
           LAMBDA s :
      Bind(responses_create(s.r,
               [previous_response_id |-> Some(input.id),
                input |-> <<AcknowledgedCallOutput(computer_call, s.ret,
                                                   safety_checks)>>]),
           LAMBDA n :
          LET r1 == SetField(n.r, "response_history",
                             Append(n.r.self.response_history, n.ret))
          IN  { Return(r1, None) })))

_execute_and_continue_call(r, input, computer_call, safety_checks) ==
    IF r.self.desktop = None
    THEN { Raise(r, NoDesktopError) }
    ELSE
      Bind(handle_model_action(Dispatch(r, computer_call, input, "acknowledged"),
                               computer_call.action),
           LAMBDA a :
      Bind(get_screenshot(a.r),
           LAMBDA s :
      Bind(responses_create(s.r,
               [previous_response_id |-> Some(input.id),
                input |-> <<AcknowledgedCallOutput(computer_call, s.ret,
                                                   safety_checks)>>]),
           LAMBDA n :
          LET r1 == SetField(n.r, "response_history",
                             Append(n.r.self.response_history, n.ret))
          IN  { Return(SetField(r1, "current_response", Some(n.ret)), None) })))

\* variant: the pending call and checks are not cleared
_handle_acknowledged_safety_checks_KeepsPending(r) ==
    IF \/ r.self.current_response = None
       \/ r.self.pending_call = None
       \/ r.self.pending_safety_checks = <<>>
    THEN { Return(SetField(r, "error", Some(NoPendingCallError)),
                  <<ERROR, NoPendingCallError>>) }
    ELSE
      Bind(_execute_and_continue_call(r, Get(r.self.current_response),
                                      Get(r.self.pending_call),
                                      r.self.pending_safety_checks),
           LAMBDA e :
          _process_response(e.r, Get(e.r.self.current_response)))

_handle_acknowledged_safety_checks(r) ==
    IF \/ r.self.current_response = None
       \/ r.self.pending_call = None
       \/ r.self.pending_safety_checks = <<>>
    THEN { Return(SetField(r, "error", Some(NoPendingCallError)),
                  <<ERROR, NoPendingCallError>>) }
    ELSE
      Bind(_execute_and_continue_call(r, Get(r.self.current_response),
                                      Get(r.self.pending_call),
                                      r.self.pending_safety_checks),
           LAMBDA e :
          LET r1 == SetField(SetField(e.r, "pending_call", None),
                             "pending_safety_checks", <<>>)
          IN  _process_response(r1, Get(r1.self.current_response)))

-----------------------------------------------------------------------------
(* The public methods of Agent.                                             *)

\* variant: a failure is reported with a fixed text, not with its description
Catch_FixedMessage(S) ==
    { IF x.exc # None
      THEN Return(SetField(x.r, "error", x.exc), <<ERROR, "An error occurred">>)
      ELSE x : x \in S }

\* the `except Exception as e` of action: the failure becomes the ERROR result
Catch(S) ==
    { IF x.exc # None
      THEN Return(SetField(x.r, "error", x.exc), <<ERROR, Get(x.exc)>>)
      ELSE x : x \in S }

\* variant: a pending call is executed by any call, acknowledged or not
action_PendingFirst(r, input_text, acknowledged_safety_checks) ==
    IF r.self.desktop = None
    THEN { Return(SetField(r, "error", Some(NoDesktopError)),
                  <<ERROR, NoDesktopError>>) }
    ELSE Catch(
        IF r.self.pending_call # None
        THEN _handle_acknowledged_safety_checks(r)
        ELSE IF r.self.needs_input # <<>> /\ input_text # None
        THEN _handle_user_input(r, Get(input_text))
        ELSE IF input_text # None
        THEN _handle_new_command(r, Get(input_text))
        ELSE { Return(SetField(r, "error", Some(NoValidActionError)),
                      <<ERROR, NoValidActionError>>) })

\* variant: a new command is started without testing that input_text is given
action_NoTextTest(r, input_text, acknowledged_safety_checks) ==
    IF r.self.desktop = None
    THEN { Return(SetField(r, "error", Some(NoDesktopError)),
                  <<ERROR, NoDesktopError>>) }
    ELSE Catch(
        IF acknowledged_safety_checks /\ r.self.pending_call # None
        THEN _handle_acknowledged_safety_checks(r)
        ELSE IF r.self.needs_input # <<>> /\ input_text # None
        THEN _handle_user_input(r, Get(input_text))
        ELSE _handle_new_command(r, IF input_text # None THEN Get(input_text)
                                    ELSE "None"))

\* variant: the "no valid action" error also drops the open conversation
action_ErrorResets(r, input_text, acknowledged_safety_checks) ==
    IF r.self.desktop = None
    THEN { Return(SetField(r, "error", Some(NoDesktopError)),
                  <<ERROR, NoDesktopError>>) }
    ELSE Catch(
        IF acknowledged_safety_checks /\ r.self.pending_call # None
        THEN _handle_acknowledged_safety_checks(r)
        ELSE IF r.self.needs_input # <<>> /\ input_text # None
        THEN _handle_user_input(r, Get(input_text))
        ELSE IF input_text # None
        THEN _handle_new_command(r, Get(input_text))
        ELSE { Return(SetField(SetField(SetField(r, "needs_input", <<>>),
                                        "current_response", None),
                               "error", Some(NoValidActionError)),
                      <<ERROR, NoValidActionError>>) })

\* variant: the test for a missing desktop is left out
action_NoDesktopTest(r, input_text, acknowledged_safety_checks) ==
    Catch(
        IF acknowledged_safety_checks /\ r.self.pending_call # None
        THEN _handle_acknowledged_safety_checks(r)
        ELSE IF r.self.needs_input # <<>> /\ input_text # None
        THEN _handle_user_input(r, Get(input_text))
        ELSE IF input_text # None
        THEN _handle_new_command(r, Get(input_text))
        ELSE { Return(SetField(r, "error", Some(NoValidActionError)),
                      <<ERROR, NoValidActionError>>) })

action(r, input_text, acknowledged_safety_checks) ==
    IF r.self.desktop = None
    THEN { Return(SetField(r, "error", Some(NoDesktopError)),
                  <<ERROR, NoDesktopError>>) }
    ELSE Catch(
        IF acknowledged_safety_checks /\ r.self.pending_call # None
        THEN _handle_acknowledged_safety_checks(r)
        ELSE IF r.self.needs_input # <<>> /\ input_text # None
        THEN _handle_user_input(r, Get(input_text))
        ELSE IF input_text # None
        THEN _handle_new_command(r, Get(input_text))
        ELSE { Return(SetField(r, "error", Some(NoValidActionError)),
                      <<ERROR, NoValidActionError>>) })

\* the agent's fields as one record, and a thread that starts on them
Self ==
    [desktop |-> desktop, openai_api_key |-> openai_api_key,
     response_history |-> response_history, input_history |-> input_history,
     current_response |-> current_response, pending_call |-> pending_call,
     pending_safety_checks |-> pending_safety_checks,
     needs_input |-> needs_input, error |-> error]

ThreadOn(service) ==
    [self |-> Self, n |-> nreq, io |-> <<>>, was_current |-> was_current,
     service |-> service, script |-> None,
     latest_received |-> latest_received]

\* the same call with the collaborators answering as in the log io
Replay(service, io) == [ThreadOn(service) EXCEPT !.script = Some(io)]

Thread == ThreadOn(AnyService)

\* the fields after a method has run
Store(r) ==
    /\ desktop' = r.self.desktop
    /\ openai_api_key' = r.self.openai_api_key
    /\ response_history' = r.self.response_history
    /\ input_history' = r.self.input_history
    /\ current_response' = r.self.current_response
    /\ pending_call' = r.self.pending_call
    /\ pending_safety_checks' = r.self.pending_safety_checks
    /\ needs_input' = r.self.needs_input
    /\ error' = r.self.error
    /\ nreq' = r.n
    /\ was_current' = r.was_current
    /\ latest_received' = r.latest_received
    /\ UNCHANGED Elsewhere

Called(op, input_text, acknowledged_safety_checks, status, payload, io) ==
    [op |-> op, input_text |-> input_text,
     acknowledged_safety_checks |-> acknowledged_safety_checks,
     status |-> status, payload |-> payload, io |-> io]

\* Desktop.__init__: the four local ports, by default 5900, 8000, 3838, 2828
Ports(vnc_port, api_port, marionette_port, socat_port) ==
    [vnc_port |-> vnc_port, api_port |-> api_port,
     marionette_port |-> marionette_port, socat_port |-> socat_port]
DefaultPorts == Ports(5900, 8000, 3838, 2828)

\* Desktop.start has not been called: no run of the container yet
NotStarted ==
    [pc |-> "idle", retries |-> 0, result |-> None, message |-> None]

\* TraceConfig(enabled, callback); callback is None, or how the callable
\* given ends when it is called: "returns" or "raises"
TraceConfig(enabled, callback) == [enabled |-> enabled, callback |-> callback]

\* Tracer.__init__(config): `config or TraceConfig()`, no current trace
NewTracer(config) ==
    [config |-> IF config = None THEN TraceConfig(TRUE, None) ELSE Get(config),
     current_trace |-> None]

\* nothing has been called on the Tracer and the clock is at its start
NoTracing == [now |-> 0, delivered |-> <<>>, contexts |-> <<>>, calls |-> <<>>]

\* Agent.__init__(desktop, openai_api_key)
InitAgent ==
    \E d \in {None, Some(TheDesktop)}, k \in {None, Some("sk-key")} :
        /\ desktop = d
        /\ openai_api_key = IF k = None /\ d # None THEN Get(d).openai_api_key ELSE k
        /\ response_history = <<>>
        /\ input_history = <<>>
        /\ current_response = None
        /\ pending_call = None
        /\ pending_safety_checks = <<>>
        /\ needs_input = <<>>
        /\ error = None
        /\ nreq = 0
        /\ was_current = {}
        /\ latest_received = None
        /\ last = [op |-> "__init__", input_text |-> None,
                   acknowledged_safety_checks |-> FALSE,
                   status |-> "", payload |-> None, io |-> <<>>]

\* an Agent just constructed, beside a Desktop with the default ports that
\* was not started and a Tracer with the default config
Init ==
    /\ InitAgent
    /\ local_ports = DefaultPorts
    /\ start_call = NotStarted
    /\ tracer = NewTracer(None)
    /\ tracing = NoTracing

\* agent.action(input_text, acknowledged_safety_checks) with the given service
ActionOn(service, input_text, acknowledged_safety_checks) ==
    \E x \in action(ThreadOn(service), input_text, acknowledged_safety_checks) :
        /\ Store(x.r)
        /\ last' = Called("action", input_text, acknowledged_safety_checks,
                          x.ret[1], x.ret[2], x.r.io)

Action(input_text, acknowledged_safety_checks) ==
    ActionOn(AnyService, input_text, acknowledged_safety_checks)

\* variant: the last error survives the reset
reset_state_KeepsError ==
    /\ response_history' = <<>>
    /\ input_history' = <<>>
    /\ current_response' = None
    /\ pending_call' = None
    /\ pending_safety_checks' = <<>>
    /\ needs_input' = <<>>
    /\ was_current' = {}
    /\ latest_received' = None
    /\ last' = Called("reset_state", None, FALSE, "", None, <<>>)
    /\ UNCHANGED <<desktop, openai_api_key, nreq, error>>
    /\ UNCHANGED Elsewhere

\* agent.reset_state()
reset_state ==
    /\ response_history' = <<>>
    /\ input_history' = <<>>
    /\ current_response' = None
    /\ pending_call' = None
    /\ pending_safety_checks' = <<>>
    /\ needs_input' = <<>>
    /\ error' = None
    /\ was_current' = {}
    /\ latest_received' = None
    /\ last' = Called("reset_state", None, FALSE, "", None, <<>>)
    /\ UNCHANGED <<desktop, openai_api_key, nreq>>
    /\ UNCHANGED Elsewhere

\* agent.set_desktop(d); with d = None and no key yet, reading d.openai_api_key
\* raises after self.desktop has been assigned
set_desktop(d) ==
    /\ desktop' = d
    /\ openai_api_key' =
          IF openai_api_key = None /\ d # None /\ Get(d).openai_api_key # None
          THEN Get(d).openai_api_key
          ELSE openai_api_key
    /\ last' = Called("set_desktop", None, FALSE, "", None, <<>>)
    /\ UNCHANGED <<response_history, input_history, current_response,
                   pending_call, pending_safety_checks, needs_input, error, nreq,
                   was_current, latest_received>>
    /\ UNCHANGED Elsewhere

Next ==
    \/ \E t \in {None} \cup {Some(s) : s \in Texts}, ack \in BOOLEAN : Action(t, ack)
    \/ reset_state
    \/ \E d \in {None, Some(TheDesktop)} : set_desktop(d)

Spec == Init /\ [][Next]_vars

\* A caller that starts a command on a new agent and answers every
\* NEEDS_INPUT with text, and does nothing else; the service is finite.
\* action is a synchronous call, so a caller that goes on calling it gets
\* each call done: the caller's steps are weakly fair.
Start ==
    /\ last.op = "__init__"
    /\ \E t \in Texts : ActionOn(ScriptedService, Some(t), FALSE)

Reply ==
    /\ last.op = "action"
    /\ last.status = NEEDS_INPUT
    /\ \E t \in Texts : ActionOn(ScriptedService, Some(t), FALSE)

NextCaller ==
    \/ Start
    \/ Reply

SpecCaller == Init /\ [][NextCaller]_vars /\ WF_vars(NextCaller)

\* Calls of action on an agent whose service proposes every kind of action.
NextDispatch ==
    \E t \in {None} \cup {Some(s) : s \in Texts}, ack \in BOOLEAN :
        ActionOn(DispatchService, t, ack)

SpecDispatch == Init /\ [][NextDispatch]_vars

-----------------------------------------------------------------------------
(* Desktop: the primitives as the xdotool commands they run in the          *)
(* container.  A method of Desktop runs on a thread like a method of Agent; *)
(* its log is the commands given to Desktop.exec.                           *)

\* the longest key sequence of a keypress call
MaxKeys == 3

\* one xdotool sub-command: its name, its key name ("" if none) and its
\* numbers, as they are formatted into the command line
Xdo(do, key, nums) == [do |-> do, key |-> key, nums |-> nums]

\* str.upper() and str.lower() on the names that occur
Upper(s) ==
    CASE s \in {"CTRL", "ctrl", "Ctrl"} -> "CTRL"
      [] s \in {"SHIFT", "shift"} -> "SHIFT"
      [] s \in {"A", "a"} -> "A"
      [] s \in {"Enter", "enter"} -> "ENTER"
      [] s \in {"SPACE", "space"} -> "SPACE"
      [] s \in {"LEFT", "left"} -> "LEFT"
      [] s \in {"Middle", "middle"} -> "MIDDLE"
      [] s \in {"wheel"} -> "WHEEL"
      [] s \in {"RIGHT", "right"} -> "RIGHT"
      [] s \in {"back"} -> "BACK"

Lower(s) ==
    CASE s \in {"CTRL", "ctrl", "Ctrl"} -> "ctrl"
      [] s \in {"SHIFT", "shift"} -> "shift"
      [] s \in {"A", "a"} -> "a"
      [] s \in {"Enter", "enter"} -> "enter"
      [] s \in {"SPACE", "space"} -> "space"
      [] s \in {"LEFT", "left"} -> "left"
      [] s \in {"Middle", "middle"} -> "middle"
      [] s \in {"wheel"} -> "wheel"
      [] s \in {"RIGHT", "right"} -> "right"
      [] s \in {"back"} -> "back"

\* Desktop.exec(command): the command runs in the container, or docker
\* raises (the container is gone)
exec(r, command) ==
    Answers(r,
        { Return(Log(r, [op |-> "exec", command |-> command, ok |-> TRUE]), None),
          Raise(Log(r, [op |-> "exec", command |-> command, ok |-> FALSE]),
                "docker error") })

\* variant: the button name is looked up as written
click_CaseSensitive(r, x, y, click_type) ==
    LET t == CASE click_type = "left" -> 1
               [] click_type = "middle" -> 2
               [] click_type = "wheel" -> 2
               [] click_type = "right" -> 3
               [] OTHER -> 1
    IN  exec(r, <<Xdo("mousemove", "", <<x, y>>), Xdo("click", "", <<t>>)>>)

\* Desktop.click(x, y, click_type): click_type_map.get(click_type.lower(), 1)
click(r, x, y, click_type) ==
    LET t == CASE Lower(click_type) = "left" -> 1
               [] Lower(click_type) = "middle" -> 2
               [] Lower(click_type) = "wheel" -> 2
               [] Lower(click_type) = "right" -> 3
               [] OTHER -> 1
    IN  exec(r, <<Xdo("mousemove", "", <<x, y>>), Xdo("click", "", <<t>>)>>)

\* the `range(3)` of both loops of Desktop.scroll
ScrollPulses == 3

RECURSIVE Repeat(_, _, _)
\* `for _ in range(n): self.exec(command)`
Repeat(r, n, command) ==
    IF n = 0 THEN { Return(r, None) }
    ELSE Bind(exec(r, command), LAMBDA e : Repeat(e.r, n - 1, command))

Abs(n) == IF n < 0 THEN 0 - n ELSE n

\* variant: the loops run `clicks` times, the number computed from the offset
scroll_ClicksFromOffset(r, x, y, scroll_x, scroll_y) ==
    Bind(exec(r, <<Xdo("mousemove", "", <<x, y>>)>>), LAMBDA m :
    Bind(IF scroll_y # 0
         THEN Repeat(m.r, Abs(scroll_y) \div 100,
                     <<Xdo("click", "", <<IF scroll_y < 0 THEN 4 ELSE 5>>)>>)
         ELSE { Return(m.r, None) }, LAMBDA v :
    IF scroll_x # 0
    THEN Repeat(v.r, Abs(scroll_x) \div 100,
                <<Xdo("click", "", <<IF scroll_x < 0 THEN 6 ELSE 7>>)>>)
    ELSE { Return(v.r, None) }))

\* Desktop.scroll(x, y, scroll_x, scroll_y)
scroll(r, x, y, scroll_x, scroll_y) ==
    Bind(exec(r, <<Xdo("mousemove", "", <<x, y>>)>>), LAMBDA m :
    Bind(IF scroll_y # 0
         THEN Repeat(m.r, ScrollPulses,
                     <<Xdo("click", "", <<IF scroll_y < 0 THEN 4 ELSE 5>>)>>)
         ELSE { Return(m.r, None) }, LAMBDA v :
    IF scroll_x # 0
    THEN Repeat(v.r, ScrollPulses,
                <<Xdo("click", "", <<IF scroll_x < 0 THEN 6 ELSE 7>>)>>)
    ELSE { Return(v.r, None) }))

\* variant: the modifier names are matched as written
keypress_for_CaseSensitive(r, keys, ctrl_pressed, shift_pressed) ==
    LET RECURSIVE go(_, _, _, _)
        go(q, ks, c, h) ==
            IF ks = <<>> THEN { Return(q, <<c, h>>) }
            ELSE LET k == Head(ks)
                 IN  IF k = "CTRL"
                     THEN Bind(exec(q, <<Xdo("keydown", "ctrl", <<>>)>>),
                               LAMBDA e : go(e.r, Tail(ks), TRUE, h))
                     ELSE IF k = "SHIFT"
                     THEN Bind(exec(q, <<Xdo("keydown", "shift", <<>>)>>),
                               LAMBDA e : go(e.r, Tail(ks), c, TRUE))
                     ELSE IF Lower(k) = "enter"
                     THEN Bind(exec(q, <<Xdo("key", "Return", <<>>)>>),
                               LAMBDA e : go(e.r, Tail(ks), c, h))
                     ELSE IF Lower(k) = "space"
                     THEN Bind(exec(q, <<Xdo("key", "space", <<>>)>>),
                               LAMBDA e : go(e.r, Tail(ks), c, h))
                     ELSE Bind(exec(q, <<Xdo("key", Lower(k), <<>>)>>),
                               LAMBDA e : go(e.r, Tail(ks), c, h))
    IN  go(r, keys, ctrl_pressed, shift_pressed)

RECURSIVE keypress_for(_, _, _, _)
\* the `for k in keys` of Desktop.keypress; it returns the two flags
keypress_for(r, keys, ctrl_pressed, shift_pressed) ==
    IF keys = <<>> THEN { Return(r, <<ctrl_pressed, shift_pressed>>) }
    ELSE LET k == Head(keys)
         IN  IF Upper(k) = "CTRL"
             THEN Bind(exec(r, <<Xdo("keydown", "ctrl", <<>>)>>),
                       LAMBDA e : keypress_for(e.r, Tail(keys), TRUE, shift_pressed))
             ELSE IF Upper(k) = "SHIFT"
             THEN Bind(exec(r, <<Xdo("keydown", "shift", <<>>)>>),
                       LAMBDA e : keypress_for(e.r, Tail(keys), ctrl_pressed, TRUE))
             ELSE IF Lower(k) = "enter"
             THEN Bind(exec(r, <<Xdo("key", "Return", <<>>)>>),
                       LAMBDA e : keypress_for(e.r, Tail(keys), ctrl_pressed,
                                               shift_pressed))
             ELSE IF Lower(k) = "space"
             THEN Bind(exec(r, <<Xdo("key", "space", <<>>)>>),
                       LAMBDA e : keypress_for(e.r, Tail(keys), ctrl_pressed,
                                               shift_pressed))
             ELSE Bind(exec(r, <<Xdo("key", Lower(k), <<>>)>>),
                       LAMBDA e : keypress_for(e.r, Tail(keys), ctrl_pressed,
                                               shift_pressed))

\* Desktop.keypress(keys)
keypress(r, keys) ==
    Bind(keypress_for(r, keys, FALSE, FALSE), LAMBDA f :
    Bind(IF f.ret[1]
         THEN exec(f.r, <<Xdo("keyup", "ctrl", <<>>)>>)
         ELSE { Return(f.r, None) }, LAMBDA c :
    IF f.ret[2]
    THEN exec(c.r, <<Xdo("keyup", "shift", <<>>)>>)
    ELSE { Return(c.r, None) }))

\* the key names of a keypress call and the key sequences tried
Keys == {"CTRL", "ctrl", "shift", "A", "Enter", "SPACE"}

RECURSIVE SeqsUpTo(_, _)
SeqsUpTo(S, n) ==
    IF n = 0 THEN { <<>> }
    ELSE LET shorter == SeqsUpTo(S, n - 1)
         IN  shorter \cup { Append(q, e) : q \in shorter, e \in S }

\* the record of a call of a method of Desktop: what it was called with,
\* whether it raised, what it returned and the commands it gave to exec
DesktopCalled(op, args, x) ==
    [op |-> op, args |-> args, raised |-> x.exc # None, ret |-> x.ret,
     io |-> x.r.io]

\* The methods of Desktop below keep nothing from one call to the next, so
\* a run makes one call, on a Desktop nothing was called on before.
AgentFields ==
    <<desktop, openai_api_key, response_history, input_history,
      current_response, pending_call, pending_safety_checks, needs_input,
      error, nreq, was_current, latest_received>>

Keypress ==
    /\ last.op = "__init__"
    /\ \E keys \in SeqsUpTo(Keys, MaxKeys) :
           \E x \in keypress(Thread, keys) :
               /\ last' = DesktopCalled("keypress", keys, x)
               /\ UNCHANGED AgentFields
               /\ UNCHANGED Elsewhere

\* A value of the old response dict: a Python object with its type.
Py(type, value) == [type |-> type, value |-> value]
PyNone == Py("NoneType", None)

\* the four `if status == AgentStatus....` of action_legacy, which turn the
\* result of action into the old response dict.  AgentStatus is imported
\* from .constants and taken to be the enum that Agent returns.  For
\* NEEDS_SAFETY_CHECK, `safety_checks, pending_call = data` unpacks the
\* dict data, which yields its two keys.
legacy_dict(status, data) ==
    CASE status = COMPLETE ->
            [result |-> Py("Response", data), needs_input |-> Py("list", <<>>),
             safety_checks |-> Py("list", <<>>), pending_call |-> PyNone]
      [] status = NEEDS_INPUT ->
            [result |-> PyNone, needs_input |-> Py("list", data),
             safety_checks |-> Py("list", <<>>), pending_call |-> PyNone]
      [] status = NEEDS_SAFETY_CHECK ->
            [result |-> PyNone, needs_input |-> Py("list", <<>>),
             safety_checks |-> Py("str", "safety_checks"),
             pending_call |-> Py("str", "pending_call")]
      [] status = ERROR ->
            [result |-> PyNone, needs_input |-> Py("list", <<>>),
             safety_checks |-> Py("list", <<>>), pending_call |-> PyNone,
             error |-> Py("str", data)]

AgentActionTypeError ==
    "Agent.action() got an unexpected keyword argument 'ignore_safety_and_input'"

\* Desktop.action called as action_legacy calls it: no old-style argument is
\* seen, so it delegates to agent.action with nine keyword arguments, of
\* which Agent.action(self, input_text, acknowledged_safety_checks) takes
\* two: the call raises TypeError before the agent does anything.
desktop_action(r, input_text, acknowledged_safety_checks) ==
    { Raise(r, AgentActionTypeError) }

\* Desktop.action_legacy(input, user_input, safety_checks, pending_call);
\* the old pending_call is not read
action_legacy(r, input, user_input, safety_checks, old_pending_call) ==
    LET input_text == IF user_input # None THEN user_input ELSE input
        acknowledged_safety_checks ==
            safety_checks # None /\ Get(safety_checks) # <<>>
    IN  Bind(desktop_action(r, input_text, acknowledged_safety_checks),
             LAMBDA a : { Return(a.r, legacy_dict(a.ret[1], a.ret[2])) })

\* the results Agent.action returns, one of each status
ActionResults ==
    { <<COMPLETE, [id |-> 1, output |-> <<>>]>>,
      <<NEEDS_INPUT, <<M2, M1>>>>,
      <<NEEDS_SAFETY_CHECK,
        [safety_checks |-> <<Check1, Check2>>, pending_call |-> CallRisky]>>,
      <<ERROR, ServiceError>> }

ActionLegacy ==
    /\ last.op = "__init__"
    /\ \E input \in {None, Some("open file")},
          user_input \in {None, Some("report.txt")},
          safety_checks \in {None, Some(<<>>), Some(<<Check1>>)} :
           \E x \in action_legacy(Thread, input, user_input, safety_checks, None) :
               /\ last' = DesktopCalled("action_legacy",
                                        <<input, user_input, safety_checks>>, x)
               /\ UNCHANGED AgentFields
               /\ UNCHANGED Elsewhere

\* the conversion at the end of action_legacy on its own, for each result
LegacyDict ==
    /\ last.op = "__init__"
    /\ \E result \in ActionResults :
           /\ last' = DesktopCalled("legacy_dict", result,
                                    Return(Thread,
                                           legacy_dict(result[1], result[2])))
           /\ UNCHANGED AgentFields
           /\ UNCHANGED Elsewhere

\* the button names, screen points and scroll offsets tried
Buttons == {"left", "LEFT", "Middle", "wheel", "right", "RIGHT", "back"}
Points == {<<10, 20>>, <<640, 0>>}
Offsets == {-250, -50, 0, 50, 250}

Click ==
    /\ last.op = "__init__"
    /\ \E p \in Points, b \in Buttons :
           \E x \in click(Thread, p[1], p[2], b) :
               /\ last' = DesktopCalled("click", <<p[1], p[2], b>>, x)
               /\ UNCHANGED AgentFields
               /\ UNCHANGED Elsewhere

Scroll ==
    /\ last.op = "__init__"
    /\ \E p \in Points, dx \in Offsets, dy \in Offsets :
           \E x \in scroll(Thread, p[1], p[2], dx, dy) :
               /\ last' = DesktopCalled("scroll", <<p[1], p[2], dx, dy>>, x)
               /\ UNCHANGED AgentFields
               /\ UNCHANGED Elsewhere

NextDesktop ==
    \/ Keypress
    \/ Click
    \/ Scroll
    \/ ActionLegacy
    \/ LegacyDict

SpecDesktop == Init /\ [][NextDesktop]_vars

-----------------------------------------------------------------------------
(* Desktop.start: the container is looked up and, when there is none, run   *)
(* in a loop that moves the local ports on a port conflict.  Docker is      *)
(* external: what it answers to each request is chosen nondeterministically.*)
(* The call is modelled in steps, one for the lookup and one for each turn  *)
(* of the loop, because each turn asks docker again.                        *)

max_retries == 10
MaxPort == 65535

\* the local ports a Desktop is constructed with: the defaults, a VNC port
\* whose digits begin those of the API port, and a socat port near the top
PortConfigs ==
    { DefaultPorts,
      Ports(80, 8000, 3838, 2828),
      Ports(5900, 8000, 3838, 65533) }

RECURSIVE Str(_)
\* str(port): the decimal digits of a port number
Str(n) == IF n < 10 THEN <<n>> ELSE Append(Str(n \div 10), n % 10)

\* `a in b` for two strings of digits of which b is followed by a non-digit:
\* here b comes after "0.0.0.0:" in the message, so a is in b at its start
StartsWith(b, a) ==
    /\ Len(a) <= Len(b)
    /\ \A i \in 1..Len(a) : a[i] = b[i]

\* The error messages of docker.  A port conflict reads "driver failed
\* programming external connectivity on endpoint ...: Bind for
\* 0.0.0.0:<port> failed: port is already allocated"; conflict tells whether
\* the message has the two phrases, port is the port after "0.0.0.0:", if any.
ErrorMessage(conflict, port) == [conflict |-> conflict, port |-> port]

\* `"0.0.0.0:" + str(port) in error_message`
Mentions(error_message, port) ==
    /\ error_message.port # None
    /\ StartsWith(Str(Get(error_message.port)), Str(port))

\* isinstance(an exception of class c, clause): docker.errors has
\* ImageNotFound < NotFound < APIError
IsInstance(c, clause) ==
    \/ c = clause
    \/ c = "ImageNotFound" /\ clause \in {"NotFound", "APIError"}
    \/ c = "NotFound" /\ clause = "APIError"

\* Desktop._increment_port applied to the field f of the ports: the ports
\* after it, or RuntimeError
_increment_port(x, f) ==
    IF x.raised # None THEN x
    ELSE IF x.ports[f] + 1 > MaxPort
    THEN [x EXCEPT !.raised = Some("RuntimeError")]
    ELSE [x EXCEPT !.ports[f] = @ + 1]

\* the if/elif chain on a port conflict: the first port the message
\* mentions is incremented, or all four in turn when it mentions none
MovePorts(ports, error_message) ==
    LET x == [ports |-> ports, raised |-> None]
    IN  IF Mentions(error_message, ports.vnc_port)
        THEN _increment_port(x, "vnc_port")
        ELSE IF Mentions(error_message, ports.api_port)
        THEN _increment_port(x, "api_port")
        ELSE IF Mentions(error_message, ports.marionette_port)
        THEN _increment_port(x, "marionette_port")
        ELSE IF Mentions(error_message, ports.socat_port)
        THEN _increment_port(x, "socat_port")
        ELSE _increment_port(
                 _increment_port(
                     _increment_port(_increment_port(x, "vnc_port"), "api_port"),
                     "marionette_port"),
                 "socat_port")

\* what docker_client.containers.run can answer: the container, a port
\* conflict on one of the ports asked for or with no port in the message,
\* another API error, or that the image was not found
RunAnswers ==
    { [class |-> "Container", message |-> None] }
        \cup { [class |-> "APIError", message |-> Some(ErrorMessage(TRUE, Some(local_ports[f])))] :
                  f \in {"vnc_port", "api_port", "marionette_port", "socat_port"} }
        \cup { [class |-> "APIError", message |-> Some(ErrorMessage(TRUE, None))],
               [class |-> "APIError", message |-> Some(ErrorMessage(FALSE, None))],
               [class |-> "ImageNotFound", message |-> Some(ErrorMessage(FALSE, None))] }

\* start ends: it returns the container or raises
Ended(result, message) ==
    [start_call EXCEPT !.pc = "done", !.result = Some(result),
                       !.message = message]

StartFields ==
    <<desktop, openai_api_key, response_history, input_history,
      current_response, pending_call, pending_safety_checks, needs_input,
      error, nreq, was_current, latest_received, last, tracer, tracing>>

\* start up to the loop: containers.get finds the container (and starts it
\* when it is not running), or raises NotFound and the image is pulled
StartLookup ==
    /\ start_call.pc = "idle"
    /\ \E found \in {"running", "exited", "NotFound", "APIError"},
          ok \in BOOLEAN :
           start_call' =
               CASE found = "running" -> Ended("Container", None)
                 [] found = "exited" ->
                        IF ok THEN Ended("Container", None)
                        ELSE Ended("APIError", None)
                 [] found = "NotFound" -> [start_call EXCEPT !.pc = "loop"]
                 [] OTHER -> Ended("APIError", None)
    /\ UNCHANGED local_ports
    /\ UNCHANGED StartFields

\* one turn of `while retries < max_retries`: containers.run and the except
\* clauses.  The clause `except APIError` comes first and takes every
\* APIError, an ImageNotFound too.  After a conflict the container left
\* over is looked up and removed (cleaned), or that raises.
StartRun ==
    /\ start_call.pc = "loop"
    /\ start_call.retries < max_retries
    /\ \E answer \in RunAnswers, cleaned \in BOOLEAN :
           LET ran == [start_call EXCEPT !.message = answer.message]
               moved == MovePorts(local_ports, Get(answer.message))
           IN  IF answer.class = "Container"
               THEN /\ start_call' = [ran EXCEPT !.pc = "done",
                                                 !.result = Some("Container")]
                    /\ UNCHANGED local_ports
               ELSE IF IsInstance(answer.class, "APIError")
               THEN IF Get(answer.message).conflict
                    THEN /\ local_ports' = moved.ports
                         /\ start_call' =
                               IF moved.raised # None
                               THEN [ran EXCEPT !.pc = "done",
                                                !.result = moved.raised]
                               ELSE IF cleaned
                               THEN [ran EXCEPT !.retries = @ + 1]
                               ELSE [ran EXCEPT !.retries = @ + 1,
                                                !.pc = "done",
                                                !.result = Some("APIError")]
                    ELSE /\ start_call' = [ran EXCEPT !.pc = "done",
                                                      !.result = Some(answer.class)]
                         /\ UNCHANGED local_ports
               ELSE /\ start_call' = [ran EXCEPT !.pc = "done",
                                                 !.result = Some(answer.class)]
                    /\ UNCHANGED local_ports
    /\ UNCHANGED StartFields

\* the loop ends with retries used up: `if retries >= max_retries: raise`
StartGiveUp ==
    /\ start_call.pc = "loop"
    /\ start_call.retries >= max_retries
    /\ start_call' = Ended("RuntimeError", start_call.message)
    /\ UNCHANGED local_ports
    /\ UNCHANGED StartFields

\* a Desktop constructed with one of the port settings, not started
InitStart ==
    /\ InitAgent
    /\ desktop # None
    /\ local_ports \in PortConfigs
    /\ start_call = NotStarted
    /\ tracer = NewTracer(None)
    /\ tracing = NoTracing

NextStart ==
    \/ StartLookup
    \/ StartRun
    \/ StartGiveUp

\* start is a synchronous call: once called it runs to its end
SpecStart == InitStart /\ [][NextStart]_vars /\ WF_vars(NextStart)

-----------------------------------------------------------------------------
(* Tracer (spongecake-sdk, trace.py).  A method runs on the pair            *)
(*   t = [tracer |-> the Tracer's fields, env |-> the clock, the traces the *)
(*        callback was given, ..., exc |-> what the method raised]          *)
(* time.time() reads the clock, which moves on by one at each reading.      *)

\* the calls made on one Tracer in a run
MaxCalls == 5

TraceIds == {"a", "b"}

\* time.time()
Tick(t) == [t EXCEPT !.env.now = @ + 1]

\* TraceEntry(action_type, timestamp, **kwargs).to_dict()
to_dict(action_type, timestamp, data) ==
    data @@ [action_type |-> action_type, timestamp |-> timestamp]

\* Tracer.start(trace_id)
start(t, trace_id) ==
    IF t.tracer.config.enabled /\ t.tracer.current_trace = None
    THEN Tick([t EXCEPT !.tracer.current_trace =
                            Some([trace_id |-> trace_id,
                                  start_time |-> t.env.now,
                                  entries |-> <<>>])])
    ELSE t

\* variant: an exception raised by the callback is not caught
_process_trace_Propagates(t, trace_data) ==
    IF t.tracer.config.callback # None
    THEN LET called == [t EXCEPT !.env.delivered = Append(@, trace_data)]
         IN  IF Get(t.tracer.config.callback) = "raises"
             THEN [called EXCEPT !.exc = Some("callback failed")]
             ELSE called
    ELSE t

\* Tracer._process_trace(trace_data): the callback is called with the trace;
\* an Exception it raises is logged and not raised on
_process_trace(t, trace_data) ==
    IF t.tracer.config.callback # None
    THEN [t EXCEPT !.env.delivered = Append(@, trace_data)]
    ELSE t

\* variant: the trace is handed to the callback and stays the current one
stop_KeepsTrace(t) ==
    IF t.tracer.current_trace # None
    THEN LET trace_data ==
                 [end_time |-> t.env.now] @@ Get(t.tracer.current_trace)
         IN  _process_trace(Tick(t), trace_data)
    ELSE t

\* Tracer.stop()
stop(t) ==
    IF t.tracer.current_trace # None
    THEN LET trace_data ==
                 [end_time |-> t.env.now] @@ Get(t.tracer.current_trace)
             stopped == [Tick(t) EXCEPT !.tracer.current_trace = None]
         IN  _process_trace(stopped, trace_data)
    ELSE t

\* variant: an entry is put before the entries the trace has
add_entry_AtFront(t, action_type, data) ==
    IF t.tracer.current_trace # None
    THEN LET entry == to_dict(action_type, t.env.now, data)
         IN  Tick([t EXCEPT !.tracer.current_trace =
                       Some([Get(@) EXCEPT !.entries = <<entry>> \o @])])
    ELSE t

\* Tracer.add_entry(action_type, **kwargs)
add_entry(t, action_type, data) ==
    IF t.tracer.current_trace # None
    THEN LET entry == to_dict(action_type, t.env.now, data)
         IN  Tick([t EXCEPT !.tracer.current_trace =
                       Some([Get(@) EXCEPT !.entries = Append(@, entry)])])
    ELSE t

\* variant: a trace() context inside another one starts a new trace
trace_enter_Restarts(t, trace_id) ==
    LET s == start([t EXCEPT !.tracer.current_trace = None], trace_id)
    IN  [s EXCEPT !.env.contexts = Append(@, trace_id)]

\* `with tracer.trace(trace_id):` is entered: start, then the body begins
trace_enter(t, trace_id) ==
    LET s == start(t, trace_id)
    IN  [s EXCEPT !.env.contexts = Append(@, trace_id)]

\* the body of the innermost trace() context ends, normally or by raising:
\* `finally: self.stop()`, and what the body raised is raised on
trace_exit(t, body_raises) ==
    LET s == stop([t EXCEPT !.env.contexts = SubSeq(@, 1, Len(@) - 1)])
    IN  IF s.exc = None /\ body_raises
        THEN [s EXCEPT !.exc = Some("body failed")]
        ELSE s

\* the Tracer and what is around it, before a call
Tracing == [tracer |-> tracer, env |-> tracing, exc |-> None]

\* a call of a method of the Tracer was made: it is written to the calls,
\* with the time it was made at and whether it raised
TracerCalled(op, arg, t) ==
    /\ tracer' = t.tracer
    /\ tracing' = [t.env EXCEPT !.calls =
                       Append(@, [op |-> op, arg |-> arg, at |-> tracing.now,
                                  raised |-> t.exc # None])]
    /\ UNCHANGED <<AgentFields, last, local_ports, start_call>>

TracerStart ==
    /\ Len(tracing.calls) < MaxCalls
    /\ \E id \in TraceIds : TracerCalled("start", id, start(Tracing, id))

TracerStop ==
    /\ Len(tracing.calls) < MaxCalls
    /\ TracerCalled("stop", "", stop(Tracing))

TracerAddEntry ==
    /\ Len(tracing.calls) < MaxCalls
    /\ \E data \in {[element |-> "ok_button"]} :
           TracerCalled("add_entry", [action_type |-> "click", data |-> data],
                        add_entry(Tracing, "click", data))

TraceEnter ==
    /\ Len(tracing.calls) < MaxCalls
    /\ \E id \in TraceIds : TracerCalled("enter", id, trace_enter(Tracing, id))

TraceExit ==
    /\ Len(tracing.calls) < MaxCalls
    /\ tracing.contexts # <<>>
    /\ \E body_raises \in BOOLEAN :
           TracerCalled("exit", body_raises, trace_exit(Tracing, body_raises))

\* a Tracer constructed with a config: tracing enabled or not, no callback,
\* or a callback that returns, or one that raises
InitTracer ==
    /\ InitAgent
    /\ desktop # None
    /\ local_ports = DefaultPorts
    /\ start_call = NotStarted
    /\ \E enabled \in BOOLEAN, callback \in {None, Some("returns"), Some("raises")} :
           tracer = NewTracer(Some(TraceConfig(enabled, callback)))
    /\ tracing = NoTracing

NextTracer ==
    \/ TracerStart
    \/ TracerStop
    \/ TracerAddEntry
    \/ TraceEnter
    \/ TraceExit

SpecTracer == InitTracer /\ [][NextTracer]_vars

-----------------------------------------------------------------------------
(* What the claims speak about.                                             *)

\* the last step was a call of action
Acted == last.op = "action"

\* the event is a request the model service answered with a response
IsAnswer(ev) == ev.op = "responses.create" /\ ev.response # None

HasCall(response) ==
    \E i \in DOMAIN response.output : response.output[i].type = "computer_call"
HasMessage(response) ==
    \E i \in DOMAIN response.output : response.output[i].type = "message"
HasCheck(response) ==
    \E i \in DOMAIN response.output :
        response.output[i].pending_safety_checks # <<>>

\* the first call item of a response that has one
FirstCall(response) ==
    LET i == CHOOSE j \in DOMAIN response.output :
                 /\ response.output[j].type = "computer_call"
                 /\ \A k \in 1..(j - 1) : response.output[k].type # "computer_call"
    IN  response.output[i]

RECURSIVE MessagesUpTo(_, _)
\* the message items among the first k items, in their order
MessagesUpTo(output, k) ==
    IF k = 0 THEN <<>>
    ELSE IF output[k].type = "message"
         THEN Append(MessagesUpTo(output, k - 1), output[k])
         ELSE MessagesUpTo(output, k - 1)

RECURSIVE ChecksUpTo(_, _)
\* the safety checks of the first k items, in their order
ChecksUpTo(output, k) ==
    IF k = 0 THEN <<>>
    ELSE ChecksUpTo(output, k - 1) \o output[k].pending_safety_checks

Conversation ==
    <<response_history, input_history, current_response, pending_call,
      pending_safety_checks, needs_input>>

-----------------------------------------------------------------------------
(* C1 *)

\* C1: a call that came from a response carrying a safety check (on any of
\* its items) is handed to the dispatcher only in a call of action with
\* acknowledged_safety_checks true, made while that call was the pending call.
C1_DispatchNeedsAcknowledgment ==
    [][ last'.op = "action" =>
          \A i \in DOMAIN last'.io :
              LET ev == last'.io[i] IN
              ev.op = "dispatch" =>
                  /\ \E j \in DOMAIN ev.of.output : ev.of.output[j] = ev.call
                  /\ HasCheck(ev.of) =>
                        /\ last'.acknowledged_safety_checks
                        /\ pending_call = Some(ev.call) ]_vars

\* an acknowledged call of a response with checks was dispatched
C1_Witness ==
    /\ Acted
    /\ last.acknowledged_safety_checks
    /\ \E i \in DOMAIN last.io :
          /\ last.io[i].op = "dispatch"
          /\ HasCheck(last.io[i].of)

(* C2 *)

\* C2: a response with a call, a safety check and messages is answered with
\* NEEDS_SAFETY_CHECK carrying all its checks and its first call, which are
\* stored as pending; the messages do not go into needs_input and nothing
\* more is done for that response.
C2_SafetyCheckBeforeInput ==
    Acted =>
        \A i \in DOMAIN last.io :
            LET ev == last.io[i] IN
            (/\ IsAnswer(ev)
             /\ HasCall(Get(ev.response))
             /\ HasCheck(Get(ev.response))
             /\ HasMessage(Get(ev.response))) =>
                LET response == Get(ev.response)
                    checks == ChecksUpTo(response.output, Len(response.output))
                IN  /\ i = Len(last.io)
                    /\ last.status = NEEDS_SAFETY_CHECK
                    /\ last.payload = [safety_checks |-> checks,
                                       pending_call |-> FirstCall(response)]
                    /\ pending_call = Some(FirstCall(response))
                    /\ pending_safety_checks = checks
                    /\ needs_input = <<>>

C2_Witness ==
    /\ Acted
    /\ last.status = NEEDS_SAFETY_CHECK
    /\ last.io # <<>>
    /\ IsAnswer(last.io[Len(last.io)])
    /\ HasMessage(Get(last.io[Len(last.io)].response))
    /\ HasCall(Get(last.io[Len(last.io)].response))

(* C3 *)

\* C3: a response with no call and at least one message is answered with
\* NEEDS_INPUT; the payload and needs_input are its message items in their
\* order, and nothing is asked of the desktop or the service after it.
C3_NeedsInputIsTheMessages ==
    Acted =>
        \A i \in DOMAIN last.io :
            LET ev == last.io[i] IN
            (/\ IsAnswer(ev)
             /\ ~HasCall(Get(ev.response))
             /\ HasMessage(Get(ev.response))) =>
                LET response == Get(ev.response)
                    msgs == MessagesUpTo(response.output, Len(response.output))
                IN  /\ i = Len(last.io)
                    /\ last.status = NEEDS_INPUT
                    /\ last.payload = msgs
                    /\ needs_input = msgs

\* NEEDS_INPUT for a response with two messages
C3_Witness ==
    /\ Acted
    /\ last.status = NEEDS_INPUT
    /\ Len(needs_input) = 2
    /\ needs_input[1] # needs_input[2]

(* C4 *)

\* C4: a response with no call and no message but with a safety check is
\* answered with NEEDS_INPUT, not COMPLETE.
C4_OrphanedChecksNeedInput ==
    Acted =>
        \A i \in DOMAIN last.io :
            LET ev == last.io[i] IN
            (/\ IsAnswer(ev)
             /\ ~HasCall(Get(ev.response))
             /\ ~HasMessage(Get(ev.response))
             /\ HasCheck(Get(ev.response))) =>
                last.status = NEEDS_INPUT

(* C5 *)

\* C5: a response with no call, no message and no safety check is answered
\* with COMPLETE and that response; nothing is asked of the desktop or the
\* service after it, and pending_call and needs_input are empty.
C5_TerminalIsComplete ==
    Acted =>
        \A i \in DOMAIN last.io :
            LET ev == last.io[i] IN
            (/\ IsAnswer(ev)
             /\ ~HasCall(Get(ev.response))
             /\ ~HasMessage(Get(ev.response))
             /\ ~HasCheck(Get(ev.response))) =>
                /\ i = Len(last.io)
                /\ last.status = COMPLETE
                /\ last.payload = Get(ev.response)
                /\ pending_call = None
                /\ needs_input = <<>>

\* COMPLETE after the acknowledged call was executed
C5_Witness ==
    /\ Acted
    /\ last.status = COMPLETE
    /\ last.acknowledged_safety_checks
    /\ Len(last.io) > 1
    /\ ~HasCheck(last.payload)

(* C6 *)

\* C6: pending_safety_checks is non-empty only if pending_call is set, and
\* no more than one call is pending.
C6_ChecksOnlyWithPendingCall ==
    /\ pending_safety_checks # <<>> => pending_call # None
    /\ Len(pending_call) <= 1

\* a call and its checks are still pending after a call that ended in ERROR
C6_Witness ==
    /\ Acted
    /\ last.status = ERROR
    /\ pending_call # None
    /\ pending_safety_checks # <<>>

(* C7 *)

\* C7: needs_input is non-empty only if no call is pending.
C7_InputOrCallNotBoth ==
    needs_input # <<>> => pending_call = None

\* user input answered by a response that needs acknowledgment
C7_Witness ==
    /\ Acted
    /\ last.status = NEEDS_SAFETY_CHECK
    /\ pending_call # None
    /\ Len(input_history) = 2
    /\ Len(response_history) = 2
    /\ HasMessage(response_history[1])
    /\ ~HasCall(response_history[1])

(* C8 *)

\* C8 as stated: a call of action with acknowledged_safety_checks while no
\* call is pending yields ERROR and leaves pending_call and
\* pending_safety_checks as they were, whatever input_text is.
C8_AcknowledgeNothingAnyInput ==
    [][ (/\ last'.op = "action"
         /\ last'.acknowledged_safety_checks
         /\ pending_call = None) =>
            /\ last'.status = ERROR
            /\ pending_call' = pending_call
            /\ pending_safety_checks' = pending_safety_checks ]_vars

\* C8 amended: a call of action with acknowledged_safety_checks and without
\* input_text while no call is pending yields ERROR and leaves pending_call
\* and pending_safety_checks as they were.
C8_AcknowledgeNothingNoInput ==
    [][ (/\ last'.op = "action"
         /\ last'.acknowledged_safety_checks
         /\ last'.input_text = None
         /\ pending_call = None) =>
            /\ last'.status = ERROR
            /\ pending_call' = pending_call
            /\ pending_safety_checks' = pending_safety_checks ]_vars

\* an acknowledgment alone was refused while a conversation was open
C8_Witness ==
    /\ Acted
    /\ last.acknowledged_safety_checks
    /\ last.input_text = None
    /\ last.status = ERROR
    /\ pending_call = None
    /\ desktop # None
    /\ needs_input # <<>>

(* C9 *)

\* C9 as stated: a call of action without input_text while no call is
\* pending yields ERROR with the "no valid action" message, asks nothing of
\* the service or the desktop and leaves the conversation state as it was.
C9_NoInputNothingPending ==
    [][ (/\ last'.op = "action"
         /\ last'.input_text = None
         /\ pending_call = None) =>
            /\ last'.status = ERROR
            /\ last'.payload = NoValidActionError
            /\ last'.io = <<>>
            /\ UNCHANGED Conversation ]_vars

\* C9 amended: the same for an agent that has a desktop.
C9_NoInputNothingPendingWithDesktop ==
    [][ (/\ last'.op = "action"
         /\ desktop # None
         /\ last'.input_text = None
         /\ pending_call = None) =>
            /\ last'.status = ERROR
            /\ last'.payload = NoValidActionError
            /\ last'.io = <<>>
            /\ UNCHANGED Conversation ]_vars

\* the call was refused while the agent waited for user input
C9_Witness ==
    /\ Acted
    /\ last.input_text = None
    /\ last.status = ERROR
    /\ last.payload = NoValidActionError
    /\ pending_call = None
    /\ needs_input # <<>>
    /\ response_history # <<>>

(* C10 *)

\* C10: without a desktop every call of action yields ERROR, asks nothing of
\* the service or the desktop and leaves the conversation state as it was.
C10_NoDesktopIsError ==
    [][ (last'.op = "action" /\ desktop = None) =>
            /\ last'.status = ERROR
            /\ last'.io = <<>>
            /\ UNCHANGED Conversation ]_vars

\* an acknowledgment of a pending call was refused for want of a desktop
C10_Witness ==
    /\ Acted
    /\ desktop = None
    /\ last.status = ERROR
    /\ last.acknowledged_safety_checks
    /\ pending_call # None
    /\ response_history # <<>>

(* C11 *)

\* the event is a request the model service failed to answer
IsFailure(ev) == ev.op = "responses.create" /\ ev.response = None

\* C11: when a request to the model service fails during a call of action
\* (the first turn, a continuation with text, the submission of an executed
\* call's output, in the loop or after an acknowledgment), the call returns
\* ERROR with the failure's description, which is also the agent's error,
\* and the failed request is the last thing the call did: no request follows.
C11_ServiceFailureIsError ==
    Acted =>
        \A i \in DOMAIN last.io :
            IsFailure(last.io[i]) =>
                /\ i = Len(last.io)
                /\ last.status = ERROR
                /\ last.payload = ServiceError
                /\ error = Some(ServiceError)

\* the submission of an acknowledged call's output failed
C11_Witness ==
    /\ Acted
    /\ last.acknowledged_safety_checks
    /\ last.status = ERROR
    /\ Len(last.io) > 2
    /\ last.io[1].op = "dispatch"
    /\ last.io[1].how = "acknowledged"
    /\ IsFailure(last.io[Len(last.io)])

(* C12 *)

RECURSIVE IsPrefix(_, _)
IsPrefix(s, t) ==
    \/ s = <<>>
    \/ /\ t # <<>>
       /\ Head(s) = Head(t)
       /\ IsPrefix(Tail(s), Tail(t))

\* C12: a call of action, whatever it returns, only appends to
\* response_history and input_history: each history before the call is a
\* prefix of the history after it.
C12_HistoriesAppendOnly ==
    [][ last'.op = "action" =>
            /\ IsPrefix(response_history, response_history')
            /\ IsPrefix(input_history, input_history') ]_vars

\* a second command was recorded and then the service failed
C12_Witness ==
    /\ Acted
    /\ last.status = ERROR
    /\ last.payload = ServiceError
    /\ Len(input_history) = 2
    /\ Len(response_history) = 1

(* C13 *)

\* C13: every entry of response_history has been the value of
\* current_response at some moment since the history was last empty.
C13_HistoryWasCurrent ==
    \A i \in DOMAIN response_history : response_history[i] \in was_current

\* the first response is in the history and is no longer the current one:
\* the loop went on to a second response
C13_Witness ==
    /\ Acted
    /\ Len(response_history) = 1
    /\ current_response # None
    /\ Get(current_response) # response_history[1]

(* C14 *)

RECURSIVE Received(_)
\* the responses the model service gave during a call, in their order
Received(io) ==
    IF io = <<>> THEN <<>>
    ELSE IF IsAnswer(Head(io))
         THEN <<Get(Head(io).response)>> \o Received(Tail(io))
         ELSE Received(Tail(io))

\* C14: the responses received during a call of action, those obtained while
\* the loop executed a chain of calls included, are the last entries of
\* response_history, in the order received.
C14_AllResponsesRecorded ==
    Acted =>
        LET got == Received(last.io)
            n == Len(response_history)
        IN  /\ Len(got) <= n
            /\ SubSeq(response_history, n - Len(got) + 1, n) = got

(* C15 *)

\* the step is a call of action that starts a new command: text is given,
\* no pending call is being acknowledged and no input is awaited
NewCommand ==
    /\ last'.op = "action"
    /\ desktop # None
    /\ last'.input_text # None
    /\ ~(last'.acknowledged_safety_checks /\ pending_call # None)
    /\ needs_input = <<>>

\* the first request of the step was answered with a response that has no
\* call, no message and no safety check
FirstTurnTerminal ==
    /\ last'.io # <<>>
    /\ IsAnswer(last'.io[1])
    /\ ~HasCall(Get(last'.io[1].response))
    /\ ~HasMessage(Get(last'.io[1].response))
    /\ ~HasCheck(Get(last'.io[1].response))

\* C15 as stated: a new command whose first response is terminal returns
\* COMPLETE with that response, pending_call and needs_input empty and a
\* response_history of length exactly 1, on a fresh agent and on a used one.
C15_NewCommandHistoryOfOne ==
    [][ (NewCommand /\ FirstTurnTerminal) =>
            /\ last'.status = COMPLETE
            /\ last'.payload = Get(last'.io[1].response)
            /\ pending_call' = None
            /\ needs_input' = <<>>
            /\ Len(response_history') = 1 ]_vars

\* C15 amended: a new command clears pending_call, pending_safety_checks
\* and needs_input before its first turn (they are empty when the first
\* request fails) and keeps the histories: the command is appended to
\* input_history and, when the first response is terminal, the call returns
\* COMPLETE with that response, which is appended to response_history.
C15_NewCommandClearsPending ==
    [][ NewCommand =>
            /\ input_history' =
                   Append(input_history,
                          _build_input_dict("user", Get(last'.input_text)))
            /\ (last'.io = <<>> \/ IsFailure(last'.io[1])) =>
                   /\ last'.status = ERROR
                   /\ pending_call' = None
                   /\ pending_safety_checks' = <<>>
                   /\ needs_input' = <<>>
                   /\ response_history' = response_history
            /\ FirstTurnTerminal =>
                   /\ last'.status = COMPLETE
                   /\ last'.payload = Get(last'.io[1].response)
                   /\ pending_call' = None
                   /\ pending_safety_checks' = <<>>
                   /\ needs_input' = <<>>
                   /\ response_history' =
                          Append(response_history, Get(last'.io[1].response))
                   /\ current_response' = last'.io[1].response ]_vars

\* a second command on a used agent completed at its first response
C15_Witness ==
    /\ Acted
    /\ last.status = COMPLETE
    /\ Len(last.io) = 1
    /\ last.io[1].params.previous_response_id = None
    /\ Len(response_history) = 2
    /\ pending_call = None
    /\ needs_input = <<>>

(* C16 *)

\* C16: reset_state empties both histories and clears current_response,
\* pending_call, pending_safety_checks, needs_input and the last error, from
\* whatever state it is called in; the agent then acts as a new one: a
\* call with text starts a conversation (its first request carries the text
\* and no previous_response_id; without a desktop it is refused as on a new
\* agent), and an acknowledgment without text yields ERROR and asks nothing.
C16_ResetIsFresh ==
    [][ /\ last'.op = "reset_state" =>
            /\ response_history' = <<>>
            /\ input_history' = <<>>
            /\ current_response' = None
            /\ pending_call' = None
            /\ pending_safety_checks' = <<>>
            /\ needs_input' = <<>>
            /\ error' = None
            /\ UNCHANGED <<desktop, openai_api_key>>
        /\ (last.op = "reset_state" /\ last'.op = "action") =>
            /\ (last'.input_text # None /\ desktop # None) =>
                   /\ input_history' =
                          <<_build_input_dict("user", Get(last'.input_text))>>
                   /\ last'.io # <<>>
                   /\ last'.io[1].op = "responses.create"
                   /\ last'.io[1].params =
                          [previous_response_id |-> None, input |-> input_history']
            /\ (last'.input_text # None /\ desktop = None) =>
                   /\ last'.status = ERROR
                   /\ last'.payload = NoDesktopError
                   /\ last'.io = <<>>
            /\ last'.input_text = None =>
                   /\ last'.status = ERROR
                   /\ last'.io = <<>>
                   /\ UNCHANGED Conversation ]_vars

\* the second request the service received is the only one of a call and
\* its input is the whole input_history: the agent was reset in between
C16_Witness ==
    /\ Acted
    /\ nreq = 2
    /\ Len(last.io) = 1
    /\ IsAnswer(last.io[1])
    /\ last.io[1].params.previous_response_id = None
    /\ Len(input_history) = 1
    /\ response_history = <<Get(last.io[1].response)>>
    /\ error = None

(* C17 *)

\* C17 as stated, in the form a finite run refutes: the caller that starts a
\* command and answers every NEEDS_INPUT with text is left without a move
\* only at COMPLETE or ERROR.
C17_CallerStopsAtCompleteOrError ==
    (Acted /\ last.status # NEEDS_INPUT) => last.status \in {COMPLETE, ERROR}

\* C17 amended: with a finite service, the caller that starts a command and
\* answers every NEEDS_INPUT with text eventually holds, for good, a result
\* that is COMPLETE, ERROR or NEEDS_SAFETY_CHECK.
C17_CallerReachesResult ==
    <>[](Acted /\ last.status \in {COMPLETE, ERROR, NEEDS_SAFETY_CHECK})

\* the caller answered a request for input and the command completed
C17_Witness ==
    /\ Acted
    /\ last.status = COMPLETE
    /\ Len(input_history) = 2
    /\ last.io[1].params.previous_response_id = Some(1)

(* C18 *)

PrimitiveOps == {"click", "scroll", "keypress", "type_text"}

\* the log with every primitive having succeeded
AllOk(io) ==
    [i \in DOMAIN io |->
        IF io[i].op \in PrimitiveOps THEN [io[i] EXCEPT !.ok = TRUE] ELSE io[i]]

\* the event at i + 1 is a capture of the screen and, when it succeeded,
\* the event at i + 2 is the request that submits the output of call
CapturedAndSubmitted(io, i, call) ==
    /\ i + 1 <= Len(io)
    /\ io[i + 1].op = "get_screenshot"
    /\ io[i + 1].ok =>
           /\ i + 2 <= Len(io)
           /\ io[i + 2].op = "responses.create"
           /\ io[i + 2].params.input[1].type = "computer_call_output"
           /\ io[i + 2].params.input[1].call_id = call.call_id

\* C18: whether a primitive (click, scroll, keypress, type_text) called for
\* a dispatched call fails or succeeds, the screenshot is captured next and
\* the call's output submitted, and a call of action in which primitives
\* failed has an outcome that the same call has with them succeeding: the
\* same status, payload, agent state and requests.
C18_PrimitiveFailureIsSwallowed ==
    [][ last'.op = "action" =>
            /\ \A i \in DOMAIN last'.io :
                   last'.io[i].op \in PrimitiveOps =>
                       /\ i > 1
                       /\ last'.io[i - 1].op = "dispatch"
                       /\ CapturedAndSubmitted(last'.io, i, last'.io[i - 1].call)
            /\ (\E i \in DOMAIN last'.io :
                    last'.io[i].op \in PrimitiveOps /\ ~last'.io[i].ok) =>
                   \E x \in action(Replay(DispatchService, AllOk(last'.io)),
                                   last'.input_text,
                                   last'.acknowledged_safety_checks) :
                       /\ x.r.io = AllOk(last'.io)
                       /\ x.ret = <<last'.status, last'.payload>>
                       /\ x.r.self = Self'
                       /\ x.r.n = nreq' ]_vars

\* a scroll failed in the loop and the call of action went on to complete
C18_Witness ==
    /\ Acted
    /\ last.status = COMPLETE
    /\ \E i \in DOMAIN last.io :
           /\ last.io[i].op = "scroll"
           /\ ~last.io[i].ok
           /\ last.io[i - 1].how = "loop"

(* C19 *)

\* C19: the dispatch of a call whose action type is not recognized is
\* followed at once by the capture of the screen, with no primitive and no
\* error in between, and then by the submission of the call's output.
C19_UnknownActionIsSkipped ==
    Acted =>
        \A i \in DOMAIN last.io :
            (/\ last.io[i].op = "dispatch"
             /\ last.io[i].call.action.type \notin Recognized) =>
                CapturedAndSubmitted(last.io, i, last.io[i].call)

\* a drag was dispatched in the loop, its output submitted and answered
C19_Witness ==
    /\ Acted
    /\ last.status = COMPLETE
    /\ Len(last.io) = 4
    /\ last.io[2].op = "dispatch"
    /\ last.io[2].call.action = DragAction
    /\ IsAnswer(last.io[4])

(* C20 *)

\* C20: the dispatch of a screenshot action calls nothing of the desktop:
\* the one capture after it is the loop's, and what follows that capture
\* is not a second capture.
C20_ScreenshotCapturedOnce ==
    Acted =>
        \A i \in DOMAIN last.io :
            (/\ last.io[i].op = "dispatch"
             /\ last.io[i].call.action.type = "screenshot") =>
                /\ i + 1 <= Len(last.io)
                /\ last.io[i + 1].op = "get_screenshot"
                /\ i + 2 <= Len(last.io) => last.io[i + 2].op # "get_screenshot"

-----------------------------------------------------------------------------
(* C21 *)

IsCtrlToken(k) == k \in {"CTRL", "ctrl", "Ctrl"}
IsShiftToken(k) == k \in {"SHIFT", "shift"}

\* the number of places after place n of the log where cmd was run
CountAfter(io, n, cmd) ==
    Cardinality({ j \in (n + 1)..Len(io) : io[j].command = cmd })

\* C21: a keypress call that returned has run, for the keys in their order,
\* one command each: a key-down of ctrl or shift for a CTRL or SHIFT token of
\* any letter case, a key command otherwise (key "a" for "A"); after them,
\* and only there, one key-up for each modifier that was pressed.  For
\* ["CTRL", "A"]: ctrl down, key a, ctrl up, once each.
C21_KeypressHoldsModifiers ==
    (last.op = "keypress" /\ ~last.raised) =>
        LET keys == last.args
            io == last.io
            n == Len(keys)
            ctrl == \E i \in 1..n : IsCtrlToken(keys[i])
            shift == \E i \in 1..n : IsShiftToken(keys[i])
        IN  /\ Len(io) = n + (IF ctrl THEN 1 ELSE 0) + (IF shift THEN 1 ELSE 0)
            /\ \A i \in 1..n :
                   /\ IsCtrlToken(keys[i]) =>
                          io[i].command = <<Xdo("keydown", "ctrl", <<>>)>>
                   /\ IsShiftToken(keys[i]) =>
                          io[i].command = <<Xdo("keydown", "shift", <<>>)>>
                   /\ ~(IsCtrlToken(keys[i]) \/ IsShiftToken(keys[i])) =>
                          /\ Len(io[i].command) = 1
                          /\ io[i].command[1].do = "key"
                          /\ keys[i] = "A" => io[i].command[1].key = "a"
            /\ CountAfter(io, n, <<Xdo("keyup", "ctrl", <<>>)>>)
                   = (IF ctrl THEN 1 ELSE 0)
            /\ CountAfter(io, n, <<Xdo("keyup", "shift", <<>>)>>)
                   = (IF shift THEN 1 ELSE 0)
            /\ keys = <<"CTRL", "A">> =>
                   [i \in 1..3 |-> io[i].command] =
                       << <<Xdo("keydown", "ctrl", <<>>)>>,
                          <<Xdo("key", "a", <<>>)>>,
                          <<Xdo("keyup", "ctrl", <<>>)>> >>

\* both modifiers, in lower case and after a key, were held and released
C21_Witness ==
    /\ last.op = "keypress"
    /\ ~last.raised
    /\ last.args = <<"A", "ctrl", "shift">>
    /\ Len(last.io) = 5

(* C22 *)

\* the button number the claim gives to a button name
ButtonOf(name) ==
    CASE name \in {"left", "LEFT"} -> 1
      [] name \in {"middle", "Middle", "wheel"} -> 2
      [] name \in {"right", "RIGHT"} -> 3
      [] OTHER -> 1

\* C22: a click call runs one command, a pointer move to (x, y) followed by
\* a click of the button its name maps to (left 1, middle and wheel 2,
\* right 3, in any letter case; 1 for any other name).
C22_ClickMapsButton ==
    last.op = "click" =>
        /\ Len(last.io) = 1
        /\ last.io[1].command =
               <<Xdo("mousemove", "", <<last.args[1], last.args[2]>>),
                 Xdo("click", "", <<ButtonOf(last.args[3])>>)>>

\* a click with the button named in upper case
C22_Witness ==
    /\ last.op = "click"
    /\ ~last.raised
    /\ last.args[3] = "RIGHT"
    /\ last.io[1].command[2].nums = <<3>>

(* C23 *)

\* C23: a scroll call that returned has first moved the pointer to (x, y)
\* and has then run the same number of wheel clicks for every offset other
\* than 0: down (5) for scroll_y > 0, up (4) for scroll_y < 0, right (7)
\* for scroll_x > 0, left (6) for scroll_x < 0; and nothing else.
C23_ScrollFixedPulses ==
    (last.op = "scroll" /\ ~last.raised) =>
        LET io == last.io
            dx == last.args[3]
            dy == last.args[4]
            pulses(b) == CountAfter(io, 1, <<Xdo("click", "", <<b>>)>>)
        IN  /\ io # <<>>
            /\ io[1].command =
                   <<Xdo("mousemove", "", <<last.args[1], last.args[2]>>)>>
            /\ pulses(5) = (IF dy > 0 THEN ScrollPulses ELSE 0)
            /\ pulses(4) = (IF dy < 0 THEN ScrollPulses ELSE 0)
            /\ pulses(7) = (IF dx > 0 THEN ScrollPulses ELSE 0)
            /\ pulses(6) = (IF dx < 0 THEN ScrollPulses ELSE 0)
            /\ Len(io) = 1 + pulses(4) + pulses(5) + pulses(6) + pulses(7)

\* a scroll far down and a little to the left
C23_Witness ==
    /\ last.op = "scroll"
    /\ ~last.raised
    /\ last.args[3] = -50
    /\ last.args[4] = 250
    /\ Len(last.io) = 1 + ScrollPulses + ScrollPulses

(* C24 *)

\* the old response dict d has the payload of a result of each status under
\* its key and nothing under the other keys
Lossless(status, data, d) ==
    /\ d.result = (IF status = COMPLETE THEN Py("Response", data) ELSE PyNone)
    /\ d.needs_input =
           Py("list", IF status = NEEDS_INPUT THEN data ELSE <<>>)
    /\ d.safety_checks.type = "list"
    /\ d.safety_checks.value =
           (IF status = NEEDS_SAFETY_CHECK THEN data.safety_checks ELSE <<>>)
    /\ IF status = NEEDS_SAFETY_CHECK
       THEN /\ d.pending_call.type # "str"
            /\ d.pending_call.value = data.pending_call
       ELSE d.pending_call = PyNone
    /\ status = ERROR => d.error = Py("str", data)

\* C24: action_legacy returns the old response dict, and the conversion at
\* its end gives, for a result of each of the four statuses, the dict with
\* the payload under the status's key and the other keys empty.
C24_LegacyDictLossless ==
    /\ last.op = "action_legacy" => ~last.raised
    /\ last.op = "legacy_dict" => Lossless(last.args[1], last.args[2], last.ret)

(* C25 *)

\* a response with a call and no safety check on any item
Executable(response) == HasCall(response) /\ ~HasCheck(response)

\* the place of the first request after place i of the log, or the place
\* after the log's end
NextRequest(io, i) ==
    IF \E j \in (i + 1)..Len(io) : io[j].op = "responses.create"
    THEN CHOOSE j \in (i + 1)..Len(io) :
             /\ io[j].op = "responses.create"
             /\ \A k \in (i + 1)..(j - 1) : io[k].op # "responses.create"
    ELSE Len(io) + 1

\* the number of events with the given op between places i and j
CountBetween(io, i, j, op) ==
    Cardinality({ k \in (i + 1)..(j - 1) : io[k].op = op })

\* C25: in a call of action, every response received that has a call and
\* no safety check is followed by one dispatch of its first call, then one
\* capture of the screen, then the request submitting the call's output
\* with the response's id; the sequence stops short only when the call of
\* action returns ERROR.  So a status other than ERROR is returned only
\* after a response that is not executable.
C25_ExecutableIsChained ==
    Acted =>
        \A i \in DOMAIN last.io :
            (IsAnswer(last.io[i]) /\ Executable(Get(last.io[i].response))) =>
                LET io == last.io
                    response == Get(io[i].response)
                    j == NextRequest(io, i)
                IN  /\ i + 1 <= Len(io)
                    /\ io[i + 1].op = "dispatch"
                    /\ io[i + 1].call = FirstCall(response)
                    /\ io[i + 1].of = response
                    /\ CountBetween(io, i, j, "dispatch") = 1
                    /\ CountBetween(io, i, j, "get_screenshot") = 1
                    /\ io[j - 1].op = "get_screenshot"
                    /\ IF j <= Len(io)
                       THEN /\ io[j - 1].ok
                            /\ io[j].params =
                                   [previous_response_id |-> Some(response.id),
                                    input |-> <<CallOutput(FirstCall(response),
                                                           "iVBORw0KGgo=")>>]
                       ELSE last.status = ERROR

(* C26 *)

MaxOf(S) == CHOOSE m \in S : \A k \in S : k <= m

\* the id of the response received last before place i of the log of the
\* step's call, or before the call
ReceivedBefore(io, i) ==
    LET answered == { k \in 1..(i - 1) : IsAnswer(io[k]) }
    IN  IF answered # {}
        THEN Some(Get(io[MaxOf(answered)].response).id)
        ELSE latest_received

\* the call dispatched last before place i of the log
DispatchedBefore(io, i) ==
    io[MaxOf({ k \in 1..(i - 1) : io[k].op = "dispatch" })].call

\* C26: the request that opens a new command carries no
\* previous_response_id; every other request of a call of action (a user's
\* text sent as a continuation, the output of a call executed by the loop
\* or after an acknowledgment) carries the id of the response received last,
\* and a call output carries the call_id of the call dispatched last.
C26_RequestsContinueLatest ==
    [][ last'.op = "action" =>
            \A i \in DOMAIN last'.io :
                last'.io[i].op = "responses.create" =>
                    LET io == last'.io
                        params == io[i].params
                        item == params.input[1]
                    IN  IF "role" \in DOMAIN item
                        THEN /\ i = 1
                             /\ item = _build_input_dict("user",
                                                         Get(last'.input_text))
                             /\ IF NewCommand
                                THEN params.previous_response_id = None
                                ELSE /\ latest_received # None
                                     /\ params.previous_response_id =
                                            latest_received
                        ELSE /\ ReceivedBefore(io, i) # None
                             /\ params.previous_response_id =
                                    ReceivedBefore(io, i)
                             /\ \E k \in 1..(i - 1) : io[k].op = "dispatch"
                             /\ item.type = "computer_call_output"
                             /\ item.call_id = DispatchedBefore(io, i).call_id
       ]_vars

\* a user's text continued the conversation and the answer asks for an
\* acknowledgment
C26_Witness ==
    /\ Acted
    /\ last.input_text # None
    /\ last.status = NEEDS_SAFETY_CHECK
    /\ Len(last.io) = 1
    /\ last.io[1].params.previous_response_id = Some(1)
    /\ latest_received = Some(2)

(* C27 *)

\* the status of the classification of a response that is not executable:
\* a call with a check needs acknowledgment, messages or checks without a
\* call need input, and a response with none of them is terminal
StatusOf(response) ==
    IF HasCall(response) THEN NEEDS_SAFETY_CHECK
    ELSE IF HasMessage(response) \/ HasCheck(response) THEN NEEDS_INPUT
    ELSE COMPLETE

\* the call of action of this step acknowledges a pending call
Acknowledges ==
    /\ last'.op = "action"
    /\ last'.acknowledged_safety_checks
    /\ pending_call # None
    /\ desktop # None

\* C27: a call of action with acknowledged_safety_checks while a call is
\* pending (a desktop being set), with or without input_text, dispatches
\* the pending call first and no other call but those of the chain that
\* follows; the screen is captured next and, when captured, the call's
\* output is submitted with the id of the current response.  When that
\* request is answered, pending_call and pending_safety_checks are empty
\* afterwards unless the call of action returns NEEDS_SAFETY_CHECK for a
\* later response, and when the call of action ends with a response, its
\* status is the classification of that response.
C27_AcknowledgedCallRuns ==
    [][ Acknowledges =>
            LET io == last'.io
                call == Get(pending_call)
                j == NextRequest(io, 1)
            IN  /\ Len(io) >= 2
                /\ io[1].op = "dispatch"
                /\ io[1].call = call
                /\ io[1].how = "acknowledged"
                /\ \A i \in 2..Len(io) :
                       io[i].op = "dispatch" => io[i].how = "loop"
                /\ io[j - 1].op = "get_screenshot"
                /\ io[j - 1].ok =>
                       /\ j <= Len(io)
                       /\ io[j].params.previous_response_id
                              = Some(Get(current_response).id)
                       /\ Len(io[j].params.input) = 1
                       /\ io[j].params.input[1].type = "computer_call_output"
                       /\ io[j].params.input[1].call_id = call.call_id
                       /\ IsAnswer(io[j]) =>
                              /\ last'.status # NEEDS_SAFETY_CHECK =>
                                     /\ pending_call' = None
                                     /\ pending_safety_checks' = <<>>
                              /\ last'.status = NEEDS_SAFETY_CHECK =>
                                     /\ pending_call' = Some(last'.payload.pending_call)
                              /\ IsAnswer(io[Len(io)]) =>
                                     last'.status
                                         = StatusOf(Get(io[Len(io)].response)) ]_vars

(* C28 *)

\* the checks echoed by the request at place i of the log
Echoed(io, i) == io[i].params.input[1].acknowledged_safety_checks

\* the request at place i of the log submits the output of an acknowledged
\* call
IsAcknowledgment(io, i) ==
    /\ io[i].op = "responses.create"
    /\ "acknowledged_safety_checks" \in DOMAIN io[i].params.input[1]

\* the checks of the current response, in the order of its items
ChecksReceived ==
    LET output == Get(current_response).output
    IN  ChecksUpTo(output, Len(output))

GivesInput ==
    /\ last'.op = "action"
    /\ needs_input # <<>>
    /\ last'.input_text # None
    /\ ~(last'.acknowledged_safety_checks /\ pending_call # None)
    /\ desktop # None

\* C29: a call of action with input_text while needs_input is non-empty
\* (no acknowledged pending call going before it) sends the text first, as
\* the one input of a request that carries the id of the current response,
\* and appends that one entry to input_history.  When the request is
\* answered, needs_input is empty afterwards unless the call of action
\* returns NEEDS_INPUT, and then it holds the messages returned.
C29_TextContinuesConversation ==
    [][ GivesInput =>
            LET io == last'.io
                entry == _build_input_dict("user", Get(last'.input_text))
            IN  /\ Len(io) >= 1
                /\ io[1].op = "responses.create"
                /\ io[1].params.previous_response_id
                       = Some(Get(current_response).id)
                /\ io[1].params.input = <<entry>>
                /\ input_history' = Append(input_history, entry)
                /\ IsAnswer(io[1]) =>
                       /\ last'.status # NEEDS_INPUT => needs_input' = <<>>
                       /\ last'.status = NEEDS_INPUT =>
                              /\ needs_input' = last'.payload
                              /\ IsAnswer(io[Len(io)])
                              /\ needs_input' =
                                     LET output == Get(io[Len(io)].response).output
                                     IN  MessagesUpTo(output, Len(output)) ]_vars

\* the text answered two messages and the model asked again with one
C29_Witness ==
    /\ Acted
    /\ last.input_text # None
    /\ last.status = NEEDS_INPUT
    /\ Len(input_history) = 2
    /\ Len(response_history) = 2
    /\ response_history[1].output = <<M2, M1>>
    /\ last.io[1].params.previous_response_id = Some(response_history[1].id)
    /\ needs_input = <<M1>>

(* C30 *)

\* the call of action of this step gives text to an agent whose last call
\* of action returned COMPLETE or ERROR and that waits for no input (and
\* no acknowledgment of a pending call goes before the text)
Reuses ==
    /\ last.op = "action"
    /\ last.status \in {COMPLETE, ERROR}
    /\ last'.op = "action"
    /\ last'.input_text # None
    /\ needs_input = <<>>
    /\ ~(last'.acknowledged_safety_checks /\ pending_call # None)
    /\ desktop # None

\* an agent just constructed with the same desktop and key, the service
\* and the desktop answering as in the log io
Fresh(io) ==
    [Replay(AnyService, io) EXCEPT
        !.self = [@ EXCEPT !.response_history = <<>>,
                           !.input_history = <<>>,
                           !.current_response = None,
                           !.pending_call = None,
                           !.pending_safety_checks = <<>>,
                           !.needs_input = <<>>,
                           !.error = None],
        !.was_current = {},
        !.latest_received = None]

\* C30: a call of action with input_text that follows one that returned
\* COMPLETE or ERROR, needs_input being empty, sends the text first, as the
\* one input of a request without previous_response_id, and ends as the
\* same call does on an agent just constructed when the service and the
\* desktop answer the same: the same requests, status, payload, pending
\* call and checks, and needs_input.
C30_ReusableAfterCompleteOrError ==
    [][ Reuses =>
            LET io == last'.io
                entry == _build_input_dict("user", Get(last'.input_text))
            IN  /\ Len(io) >= 1
                /\ io[1].op = "responses.create"
                /\ io[1].params.previous_response_id = None
                /\ io[1].params.input = <<entry>>
                /\ \E x \in action(Fresh(io), last'.input_text,
                                   last'.acknowledged_safety_checks) :
                       /\ x.r.io = io
                       /\ x.ret = <<last'.status, last'.payload>>
                       /\ x.r.self.pending_call = pending_call'
                       /\ x.r.self.pending_safety_checks = pending_safety_checks'
                       /\ x.r.self.needs_input = needs_input' ]_vars

\* a command that completed was followed by a second command, which the
\* model answered with a call that needs acknowledgment
C30_Witness ==
    /\ Acted
    /\ last.input_text # None
    /\ last.status = NEEDS_SAFETY_CHECK
    /\ Len(input_history) = 2
    /\ Len(response_history) = 2
    /\ response_history[1].output = <<>>
    /\ last.io[1].params.previous_response_id = None
    /\ current_response = Some(response_history[2])

(* C33 *)

\* C33: after a call of action the agent's fields match the status it
\* returned: with NEEDS_SAFETY_CHECK the pending call and checks are the
\* returned ones, not empty, and needs_input is empty; with NEEDS_INPUT
\* needs_input is the returned messages and no call is pending; with
\* COMPLETE no call is pending, pending_safety_checks and needs_input are
\* empty and current_response is the returned response.
C33_StateMatchesStatus ==
    Acted =>
        /\ last.status = NEEDS_SAFETY_CHECK =>
               /\ pending_call = Some(last.payload.pending_call)
               /\ pending_safety_checks = last.payload.safety_checks
               /\ pending_safety_checks # <<>>
               /\ needs_input = <<>>
        /\ last.status = NEEDS_INPUT =>
               /\ needs_input = last.payload
               /\ pending_call = None
        /\ last.status = COMPLETE =>
               /\ pending_call = None
               /\ pending_safety_checks = <<>>
               /\ needs_input = <<>>
               /\ current_response = Some(last.payload)

\* an acknowledged call was executed and the model answered with a call
\* that needs acknowledgment again
C33_Witness ==
    /\ Acted
    /\ last.acknowledged_safety_checks
    /\ last.status = NEEDS_SAFETY_CHECK
    /\ Len(last.io) > 1
    /\ Len(response_history) = 2
    /\ pending_call = Some(FirstCall(response_history[2]))
    /\ pending_safety_checks = <<Check1>>

(* C34 *)

\* the log is that of an acknowledged dispatch of call whose submission to
\* the model service failed
SubmissionFailed(io, call) ==
    /\ Len(io) >= 2
    /\ io[1].op = "dispatch"
    /\ io[1].how = "acknowledged"
    /\ io[1].call = call
    /\ io[Len(io)].op = "responses.create"
    /\ io[Len(io)].response = None

\* C34: a pending call is dispatched at most once: when a call of action
\* dispatched the acknowledged call and returned ERROR because the
\* submission of its output failed, the next call of action with
\* acknowledged_safety_checks does not dispatch that call again.
C34_PendingCallDispatchedOnce ==
    [][ (/\ last.op = "action"
         /\ last.acknowledged_safety_checks
         /\ last.status = ERROR
         /\ pending_call # None
         /\ SubmissionFailed(last.io, Get(pending_call))
         /\ last'.op = "action"
         /\ last'.acknowledged_safety_checks) =>
            \A i \in DOMAIN last'.io :
                last'.io[i].op = "dispatch" =>
                    last'.io[i].call # Get(pending_call) ]_vars

(* C35 *)

\* the call of action of this step gives text and no acknowledgment while
\* a call is pending
Overrides ==
    /\ last'.op = "action"
    /\ pending_call # None
    /\ last'.input_text # None
    /\ ~last'.acknowledged_safety_checks
    /\ desktop # None

\* C35: a call of action with input_text and without acknowledgment while
\* a call is pending sends the text first, as the one input of a request
\* without previous_response_id, and dispatches only calls of responses
\* received in this call of action, never the pending one.  Afterwards no
\* call is pending, unless NEEDS_SAFETY_CHECK is returned for a call of a
\* response received in this call of action; and a pending call is always
\* a call of the current response, so that a later acknowledgment cannot
\* execute the discarded one.
C35_TextDiscardsPendingCall ==
    [][ /\ pending_call' # None =>
               /\ current_response' # None
               /\ HasCall(Get(current_response'))
               /\ pending_call' = Some(FirstCall(Get(current_response')))
        /\ Overrides =>
               LET io == last'.io
                   entry == _build_input_dict("user", Get(last'.input_text))
               IN  /\ Len(io) >= 1
                   /\ io[1].op = "responses.create"
                   /\ io[1].params.previous_response_id = None
                   /\ io[1].params.input = <<entry>>
                   /\ \A i \in DOMAIN io :
                          io[i].op = "dispatch" =>
                              /\ io[i].how = "loop"
                              /\ io[i].of.id > nreq
                   /\ pending_call' = None => pending_safety_checks' = <<>>
                   /\ pending_call' # None =>
                          /\ last'.status = NEEDS_SAFETY_CHECK
                          /\ Get(current_response').id > nreq ]_vars

\* a call with two checks was pending when a new command was given, and
\* the model answered the command with another call that needs
\* acknowledgment
C35_Witness ==
    /\ Acted
    /\ ~last.acknowledged_safety_checks
    /\ last.status = NEEDS_SAFETY_CHECK
    /\ Len(response_history) = 2
    /\ response_history[1].output = <<CallRisky>>
    /\ last.io[1].params.previous_response_id = None
    /\ pending_call = Some(CallSafe)
    /\ pending_safety_checks = <<Check1>>

(* C36 *)

\* C36: a call of action that returns ERROR leaves the returned message in
\* error; a call of action that returns another status leaves error as it
\* was; and error becomes None again only by reset_state.
C36_ErrorKeptUntilReset ==
    [][ /\ (last'.op = "action" /\ last'.status = ERROR) =>
               error' = Some(last'.payload)
        /\ (last'.op = "action" /\ last'.status # ERROR) => error' = error
        /\ (error # None /\ error' = None) => last'.op = "reset_state" ]_vars

\* a command completed and the error of an earlier call is still stored
C36_Witness ==
    /\ Acted
    /\ last.status = COMPLETE
    /\ error = Some(ServiceError)
    /\ Len(input_history) = 2
    /\ Len(response_history) = 1

(* C31 *)

\* this step is a turn of the loop of start in which containers.run
\* failed with a port conflict
PortConflict ==
    /\ start_call.pc = "loop"
    /\ start_call.retries < max_retries
    /\ start_call' # start_call
    /\ start_call'.message # None
    /\ Get(start_call'.message).conflict

\* the ports after a conflict: the port named in the message is one more
\* and the others are the same, or all four are one more when none is named
PortsMoved(named) ==
    \A f \in {"vnc_port", "api_port", "marionette_port", "socat_port"} :
        local_ports'[f] =
            IF named = None \/ local_ports[f] = Get(named)
            THEN local_ports[f] + 1
            ELSE local_ports[f]

\* C31: in start, a run of the container that fails with a port conflict
\* adds one to the local port named in the error, or to all four when none
\* is named, unless a port passes 65535, which raises RuntimeError; there
\* are never more than 10 retries; start comes to an end, and a
\* RuntimeError at its end means 10 port conflicts or a port past 65535
\* (any other error is one docker raised that is not a port conflict).
C31_StartRetriesOnPortConflict ==
    /\ [][ PortConflict =>
               \/ start_call'.result = Some("RuntimeError")
               \/ PortsMoved(Get(start_call'.message).port) ]_vars
    /\ [](start_call.retries <= max_retries)
    /\ [](start_call.pc = "done" =>
              /\ start_call.result \in
                     {Some("Container"), Some("RuntimeError"),
                      Some("APIError"), Some("ImageNotFound")}
              /\ start_call.result = Some("RuntimeError") =>
                     \/ start_call.retries = max_retries
                     \/ \E f \in {"vnc_port", "api_port", "marionette_port",
                                  "socat_port"} : local_ports[f] = MaxPort)
    /\ <>(start_call.pc = "done")

(* C32 *)

StartCalls == {"start", "enter"}
StopCalls == {"stop", "exit"}

RECURSIVE ActiveAfter(_, _)
\* whether a trace is active after the first k calls, as the calls tell it:
\* a start begins one when tracing is enabled, a stop ends it
ActiveAfter(calls, k) ==
    IF k = 0 THEN FALSE
    ELSE IF calls[k].op \in StopCalls THEN FALSE
    ELSE IF calls[k].op \in StartCalls /\ tracer.config.enabled THEN TRUE
    ELSE ActiveAfter(calls, k - 1)

\* the place of the start that began the trace active after the first k calls
StartOf(calls, k) ==
    CHOOSE j \in 1..k :
        /\ calls[j].op \in StartCalls
        /\ ~ActiveAfter(calls, j - 1)
        /\ \A i \in j..k : calls[i].op \notin StopCalls

RECURSIVE Added(_, _, _)
\* the entries of the calls of add_entry after place j up to place k, in
\* their order
Added(calls, j, k) ==
    IF k <= j THEN <<>>
    ELSE IF calls[k].op = "add_entry"
    THEN Append(Added(calls, j, k - 1),
                calls[k].arg.data @@ [action_type |-> calls[k].arg.action_type,
                                      timestamp |-> calls[k].at])
    ELSE Added(calls, j, k - 1)

\* C32: a stop (also the one at the end of a trace() context) while a trace
\* is active gives the callback, when there is one, that trace once, with
\* the id it was started with and the entries added since the start in
\* their order, and leaves no trace active; the callback is called at no
\* other time; a stop or an add_entry while no trace is active changes
\* nothing; and with tracing disabled there is never a trace and never a
\* call of the callback.
C32_StopDeliversTraceOnce ==
    [][ tracing'.calls # tracing.calls =>
            LET calls == tracing.calls
                k == Len(calls)
                call == tracing'.calls[k + 1]
                delivered == tracing.delivered
                active == ActiveAfter(calls, k)
            IN  /\ (tracer'.current_trace # None)
                       = ActiveAfter(tracing'.calls, k + 1)
                /\ (call.op \in StopCalls /\ active
                        /\ tracer.config.callback # None) =>
                       /\ Len(tracing'.delivered) = Len(delivered) + 1
                       /\ SubSeq(tracing'.delivered, 1, Len(delivered)) = delivered
                       /\ LET trace_data == tracing'.delivered[Len(delivered) + 1]
                              j == StartOf(calls, k)
                          IN  /\ trace_data.trace_id = calls[j].arg
                              /\ trace_data.start_time = calls[j].at
                              /\ trace_data.entries = Added(calls, j, k)
                /\ ~(call.op \in StopCalls /\ active
                         /\ tracer.config.callback # None) =>
                       tracing'.delivered = delivered
                /\ call.op \in StopCalls => tracer'.current_trace = None
                /\ (call.op \in StopCalls \cup {"add_entry"} /\ ~active) =>
                       tracer' = tracer
                /\ ~tracer.config.enabled =>
                       /\ tracer'.current_trace = None
                       /\ tracing'.delivered = <<>> ]_vars

\* a trace was started, two entries were added and stop gave the callback
\* the trace with both
C32_Witness ==
    /\ Len(tracing.calls) = 4
    /\ tracing.calls[1].op = "start"
    /\ tracing.calls[4].op = "stop"
    /\ tracer.current_trace = None
    /\ Len(tracing.delivered) = 1
    /\ Len(tracing.delivered[1].entries) = 2
    /\ tracing.delivered[1].entries[1].timestamp
           < tracing.delivered[1].entries[2].timestamp

(* C37 *)

\* the places of the calls with the given op
Places(calls, op) == { i \in DOMAIN calls : calls[i].op = op }

\* the calls are those of two nested trace() contexts that have both ended,
\* with nothing but calls of add_entry beside them
NestedContexts(calls) ==
    /\ Cardinality(Places(calls, "enter")) = 2
    /\ Cardinality(Places(calls, "exit")) = 2
    /\ \A i \in DOMAIN calls : calls[i].op \in {"enter", "exit", "add_entry"}
    /\ \A i \in Places(calls, "enter"), k \in Places(calls, "exit") : i < k
    /\ calls[1].op = "enter"

\* the smallest of a non-empty set of numbers
MinOf(S) == CHOOSE i \in S : \A j \in S : i <= j

\* C37: a start (also the one at the head of a trace() context) while a
\* trace is active leaves the tracer as it is: the same trace_id, start_time
\* and entries.  So, of two nested trace() contexts, the end of the inner
\* one gives the callback the outer trace and leaves no trace active; when
\* both have ended the callback was called once in all, with the trace of
\* the outer id and the entries added before the inner context ended, the
\* entries added after that being dropped.
C37_StartWhileActiveKeepsTrace ==
    [][ tracing'.calls # tracing.calls =>
            LET calls == tracing'.calls
                call == calls[Len(calls)]
            IN  /\ (call.op \in StartCalls /\ tracer.current_trace # None) =>
                       /\ tracer' = tracer
                       /\ tracing'.delivered = tracing.delivered
                /\ (/\ call.op = "exit"
                    /\ Len(tracing.contexts) = 2
                    /\ tracer.current_trace # None) =>
                       /\ tracer'.current_trace = None
                       /\ tracer.config.callback # None =>
                              /\ Len(tracing'.delivered)
                                     = Len(tracing.delivered) + 1
                              /\ tracing'.delivered[Len(tracing'.delivered)].trace_id
                                     = Get(tracer.current_trace).trace_id
                /\ (NestedContexts(calls) /\ tracer.config.enabled) =>
                       /\ tracer'.current_trace = None
                       /\ tracer.config.callback # None =>
                              /\ Len(tracing'.delivered) = 1
                              /\ tracing'.delivered[1].trace_id = calls[1].arg
                              /\ tracing'.delivered[1].start_time = calls[1].at
                              /\ tracing'.delivered[1].entries =
                                     Added(calls, 1, MinOf(Places(calls, "exit"))) ]_vars

\* two nested contexts have ended: the callback was called once, with the
\* trace of the outer id, and the entry added in the outer context after
\* the inner one ended is in no trace
C37_Witness ==
    /\ Len(tracing.calls) = 5
    /\ tracing.calls[1].op = "enter"
    /\ tracing.calls[1].arg = "a"
    /\ tracing.calls[2].op = "enter"
    /\ tracing.calls[2].arg = "b"
    /\ tracing.calls[3].op = "exit"
    /\ tracing.calls[4].op = "add_entry"
    /\ tracing.calls[5].op = "exit"
    /\ tracer.current_trace = None
    /\ Len(tracing.delivered) = 1
    /\ tracing.delivered[1].trace_id = "a"
    /\ tracing.delivered[1].entries = <<>>

(* C38 *)

\* C38: the end of a trace() context, whether its body raised or not, and a
\* stop leave the tracer with no active trace; a stop raises nothing, also
\* when the callback it called raised, and the end of a context raises what
\* its body raised and nothing else; a start that follows, with tracing
\* enabled, begins a trace of its own id and time with no entries.
C38_ContextAlwaysEndsTrace ==
    [][ tracing'.calls # tracing.calls =>
            LET calls == tracing'.calls
                call == calls[Len(calls)]
            IN  /\ call.op \in StopCalls => tracer'.current_trace = None
                /\ call.op = "stop" => ~call.raised
                /\ call.op = "exit" => call.raised = call.arg
                /\ (/\ call.op \in StopCalls
                    /\ tracer.current_trace # None
                    /\ tracer.config.callback # None) =>
                       tracing'.delivered =
                           Append(tracing.delivered,
                                  [end_time |-> call.at]
                                      @@ Get(tracer.current_trace))
                /\ (/\ call.op \in StartCalls
                    /\ tracer.config.enabled
                    /\ Len(calls) > 1
                    /\ calls[Len(calls) - 1].op \in StopCalls) =>
                       /\ ~call.raised
                       /\ tracer'.current_trace =
                              Some([trace_id |-> call.arg,
                                    start_time |-> call.at,
                                    entries |-> <<>>]) ]_vars

\* the body of a context raised and the callback, given its trace, raised
\* too: the start after it began a new trace without entries
C38_Witness ==
    /\ tracer.config.callback = Some("raises")
    /\ Len(tracing.calls) = 4
    /\ tracing.calls[1].op = "enter"
    /\ tracing.calls[2].op = "add_entry"
    /\ tracing.calls[3].op = "exit"
    /\ tracing.calls[3].raised
    /\ tracing.calls[4].op = "start"
    /\ Len(tracing.delivered) = 1
    /\ Len(tracing.delivered[1].entries) = 1
    /\ tracer.current_trace # None
    /\ Get(tracer.current_trace).trace_id = tracing.calls[4].arg
    /\ Get(tracer.current_trace).entries = <<>>
====
